---- MODULE Spec2Model ----
(***************************************************************************)
(* Model of the objectDB Table (src/main.go), its Result snapshots         *)
(* (src/unnamed/part_001, the revision whose Order delegates to            *)
(* Table.order) and the file back-ends (src/persist.go).                   *)
(*                                                                         *)
(* A record is a small integer, standing for the time stamp of the test    *)
(* records: the order relation compares it and the file group is derived   *)
(* from it.                                                                *)
(* Table indices and Result positions are 0-based as in the Go code;       *)
(* TLA+ sequences are 1-based, so data[i + 1] is the Go t.data[i].         *)
(***************************************************************************)
EXTENDS Integers, Sequences, FiniteSets, TLC

\* ---- bounds of the model -------------------------------------------------
MaxLen == 2
MaxVersion == 4

\* ---- records, order relation and name provider ---------------------------
\* a record is a time stamp, as the time.Time records of the tests
Records == {0, 1, 2}

\* the less passed to New in the tests: a.Before(*b)
orderLess(e1, e2) == e1 < e2

\* NameProvider.ToFile: the file group of the record (two groups)
ToFile(e) == e % 2

GroupNames == {ToFile(e) : e \in Records}

\* the relations passed to Result.Order: Before, the reversed Before, and by month
OrderRels == {"asc", "desc", "month"}

LessBy(rel, e1, e2) ==
    CASE rel = "asc" -> e1 < e2
      [] rel = "desc" -> e2 < e1
      [] OTHER -> ToFile(e1) < ToFile(e2)

SameFile(e1, e2) == ToFile(e1) = ToFile(e2)

\* ---- sequence helpers ------------------------------------------------------
Min(S) == CHOOSE x \in S : \A y \in S : x <= y

\* s with e placed so that it becomes element i (1-based), the tail shifted right
InsertAt(s, i, e) == SubSeq(s, 1, i - 1) \o <<e>> \o SubSeq(s, i, Len(s))

\* s without element i (1-based), the tail shifted left
RemoveAt(s, i) == SubSeq(s, 1, i - 1) \o SubSeq(s, i + 1, Len(s))

Range(s) == {s[i] : i \in 1 .. Len(s)}

\* number of occurrences of e in s
Count(s, e) == Cardinality({i \in 1 .. Len(s) : s[i] = e})

SameBag(s, t) == Len(s) = Len(t) /\ \A e \in Range(s) \cup Range(t) : Count(s, e) = Count(t, e)

\* the arrangements of the elements of s (as a multiset)
Arrangements(s) == {t \in [1 .. Len(s) -> Range(s)] : SameBag(s, t)}

SortedBy(rel, s) == \A i \in 1 .. (Len(s) - 1) : ~LessBy(rel, s[i + 1], s[i])

Sorted(s) == \A i \in 1 .. (Len(s) - 1) : ~orderLess(s[i + 1], s[i])

\* ---- state -----------------------------------------------------------------
VARIABLES
    data,       \* Table.data: the sequence of stored records
    version,    \* Table.version
    ordered,    \* Table.orderLess # nil
    persist,    \* Table.persist: "nil", or a back-end on a reliable or a faulty disk
    files,      \* the base folder: group name -> records of the file, <<>> when no file
    results,    \* the Results held by callers, by slot
    iter,       \* the Result.Iter loop in progress, if any
    ret,        \* what the last call returned
    m,          \* Table.m: "free", or the call that holds it across several steps
    delayedWrite, \* Table.delayedWrite # nil
    h,          \* the delayHandler last created: sec, nameMap, lastError, done, ack
    bg,         \* the goroutine of the handler: where it is and what it holds
    sd,         \* the Table.Shutdown call in progress
    swd,        \* the Table.SetWriteDelay call in progress
    th,         \* the goroutines that call Insert, Delete and Update side by side
    log,        \* their calls in the order in which they locked t.m, with the errors returned
    heap,       \* the memory cells of records: address -> record
    held,       \* the addresses of the cells the caller holds pointers to
    arg         \* the argument of the function under study

\* the cells of the records and the argument of a function studied alone
cellVars == <<heap, held, arg>>

\* the state of the delayed writer apart from the handler's fields, and of the
\* callers that run side by side
writerVars == <<m, delayedWrite, bg, sd, swd, th, log, cellVars>>

\* time.Now(), in seconds.  Times are kept relative to the present: the deadlines
\* of nameMap and the time at which the timer of the goroutine fires are seconds
\* from now, negative when they have passed, and Advance moves them into the past.
now == 0

vars == <<data, version, ordered, persist, files, results, iter, ret, h, writerVars>>

NoFile == <<>>

NoResult == [tableIndex |-> <<>>, version |-> -1]

\* res: the slot of the Result being iterated; pos: the next loop index (1-based);
\* n: the length the range loop read at its start; tail: the elements of the
\* backing array behind the Result's index array, which the loop still reads
NoIter == [res |-> 0, pos |-> 0, n |-> 0, tail |-> <<>>]

Slots == {1}

Ret(op, err, val) == [op |-> op, err |-> err, val |-> val]

\* no delayHandler has been created; nameMap is a function from the dirty group
\* names to their deadlines
NoHandler == [sec |-> 0, nameMap |-> <<>>, lastError |-> "none", done |-> FALSE, ack |-> FALSE]

\* pc: "none" (no goroutine), "select", "write" (before writeFiles of the first of
\* names), "written" (before written of it, err holding what writeFiles returned),
\* "exited"; wake: the time at which the time.After of the select fires
NoGoroutine == [pc |-> "none", wake |-> 0, names |-> <<>>, err |-> "none"]

\* pc: "idle", "wait" (before <-ack), "flush" (in the loop over nameMap, names
\* holding the names not yet written)
NoCall == [pc |-> "idle", sec |-> 0, names |-> <<>>]

Threads == {"T1", "T2"}

\* a goroutine outside any call; ver and n are the version and the size of the
\* Result it holds
NoOutcome == [err |-> "none", data |-> <<>>, version |-> 0]
NoThread == [pc |-> "idle", op |-> "none", e |-> 0, i |-> 0, ver |-> 0, n |-> 0,
             k |-> 0, r |-> NoOutcome]

\* the addresses of memory cells: one for every record the table can hold and
\* one more
Addrs == 1 .. (MaxLen + 1)

\* no cell is in use
NoCells ==
    /\ heap = [a \in Addrs |-> 0]
    /\ held = {}

\* a table on which SetWriteDelay has not been called
NoWriter ==
    /\ NoCells
    /\ arg = <<>>
    /\ m = "free"
    /\ delayedWrite = FALSE
    /\ h = NoHandler
    /\ bg = NoGoroutine
    /\ sd = NoCall
    /\ swd = NoCall
    /\ th = [t \in Threads |-> NoThread]
    /\ log = <<>>

\* t.m.Lock(): the caller proceeds when no other call holds the lock
Lock == m = "free"

\* the tables constructed: <<a less is given, the back-end>>
Configs == {<<TRUE, "reliable">>, <<TRUE, "nil">>, <<FALSE, "nil">>}

Init ==
    /\ data = <<>>
    /\ version = 0
    /\ \E c \in Configs : ordered = c[1] /\ persist = c[2]
    /\ files = [g \in GroupNames |-> NoFile]
    /\ results = [s \in Slots |-> NoResult]
    /\ iter = NoIter
    /\ ret = Ret("New", "none", <<>>)
    /\ NoWriter

\* ---- persistence back-end ------------------------------------------------
\* whether an operating-system call of the back-end fails
IOFail == IF persist = "faulty" THEN BOOLEAN ELSE {FALSE}

\* Persist that leaves the file in place when there is no record to write
PersistNoRemove(f, name, items, io) ==
    IF io
    THEN [err |-> "io", files |-> f]
    ELSE IF Len(items) = 0
         THEN [err |-> "none", files |-> f]
         ELSE [err |-> "none", files |-> [f EXCEPT ![name] = items]]

\* persistJson.Persist / persistSerializer.Persist on folder f
Persist(f, name, items, io) ==
    IF Len(items) = 0
    THEN IF io \/ f[name] = NoFile
         THEN [err |-> "io", files |-> f]
         ELSE [err |-> "none", files |-> [f EXCEPT ![name] = NoFile]]
    ELSE IF io
         THEN [err |-> "io", files |-> f]
         ELSE [err |-> "none", files |-> [f EXCEPT ![name] = items]]

\* a modified that reports the stored error without clearing it
modifiedKeepError(file) ==
    [err |-> h.lastError,
     h |-> [h EXCEPT !.nameMap = (file :> (now + h.sec)) @@ h.nameMap]]

\* delayHandler.modified(file): the error returned and the handler afterwards
modified(file) ==
    [err |-> h.lastError,
     h |-> [h EXCEPT !.nameMap = (file :> (now + h.sec)) @@ h.nameMap,
                     !.lastError = "none"]]

\* persistItem that writes the record alone instead of its whole group
persistItemAlone(d, e, f, io) ==
    IF persist = "nil"
    THEN [err |-> "none", files |-> f, h |-> h]
    ELSE IF ~delayedWrite
         THEN LET w == Persist(f, ToFile(e), <<e>>, io)
              IN  [err |-> w.err, files |-> w.files, h |-> h]
         ELSE LET w == modified(ToFile(e))
              IN  [err |-> w.err, files |-> f, h |-> w.h]

\* persistItem that writes the group also when a delayed writer is active
persistItemWriteThrough(d, e, f, io) ==
    IF persist = "nil"
    THEN [err |-> "none", files |-> f, h |-> h]
    ELSE LET w == Persist(f, ToFile(e), SelectSeq(d, LAMBDA en : SameFile(en, e)), io)
         IN  IF ~delayedWrite
             THEN [err |-> w.err, files |-> w.files, h |-> h]
             ELSE [err |-> w.err, files |-> w.files, h |-> modified(ToFile(e)).h]

\* Table.persistItem(e) with the table holding d
persistItem(d, e, f, io) ==
    IF persist = "nil"
    THEN [err |-> "none", files |-> f, h |-> h]
    ELSE IF ~delayedWrite
         THEN LET w == Persist(f, ToFile(e), SelectSeq(d, LAMBDA en : SameFile(en, e)), io)
              IN  [err |-> w.err, files |-> w.files, h |-> h]
         ELSE LET w == modified(ToFile(e))
              IN  [err |-> w.err, files |-> f, h |-> w.h]

\* the sequences that enumerate the set S
Enumerations(S) ==
    {o \in [1 .. Cardinality(S) -> S] : \A i, j \in 1 .. Cardinality(S) : i # j => o[i] # o[j]}

RECURSIVE readFiles(_, _)
\* the records of the files named by the sequence names, concatenated
readFiles(f, names) ==
    IF names = <<>> THEN <<>> ELSE f[Head(names)] \o readFiles(f, Tail(names))

\* the record sequences Restore may return: the files read in directory order
Restore(f) == {readFiles(f, o) : o \in Enumerations({g \in GroupNames : f[g] # NoFile})}

\* ---- New ---------------------------------------------------------------------
\* the sequences New may hand to the new table: the restored records, sorted when
\* a less is given (sort.Slice: any sorted arrangement)
NewData(less) ==
    IF persist = "nil"
    THEN {<<>>}
    ELSE IF less
         THEN UNION {{a \in Arrangements(e) : Sorted(a)} : e \in Restore(files)}
         ELSE Restore(files)

\* table2, err = New(nameProvider, persist, deepCopy, less) over the back-end of the
\* table; ret.val is the data of table2, which starts at version 0
New(less, io) ==
    /\ IF persist # "nil" /\ io
       THEN ret' = Ret("New", "io", <<>>)
       ELSE \E d \in NewData(less) : ret' = Ret(IF less THEN "NewLess" ELSE "New", "none", d)
    /\ UNCHANGED <<data, version, ordered, persist, files, results, iter, h, writerVars>>

\* ---- Table.Insert ------------------------------------------------------------
\* Insert that appends without looking at the order
InsertPosAppend(d, e) == Len(d) + 1

\* the position (1-based) at which Insert places e, 0 when it places it nowhere
InsertPos(d, e) ==
    IF ~ordered \/ Len(d) = 0 \/ (ordered /\ orderLess(d[Len(d)], e))
    THEN Len(d) + 1
    ELSE LET hits == {i \in 1 .. Len(d) : orderLess(e, d[i])}
         IN  IF hits # {} THEN Min(hits) ELSE 0

Insert(e, io) ==
    /\ Lock
    /\ Len(data) < MaxLen
    /\ version < MaxVersion
    /\ LET p == InsertPos(data, e)
       IN  IF p = 0
           THEN /\ ret' = Ret("Insert", "impossible", <<>>)
                /\ UNCHANGED <<data, version, files, h>>
           ELSE LET d == InsertAt(data, p, e)
                    w == persistItem(d, e, files, io)
                IN  /\ data' = d
                    /\ version' = version + 1
                    /\ files' = w.files
                    /\ h' = w.h
                    /\ ret' = Ret("Insert", w.err, <<>>)
    /\ UNCHANGED <<ordered, persist, results, iter, writerVars>>

\* ---- read-only operations of the Table ---------------------------------------
Size ==
    /\ Lock
    /\ ret' = Ret("Size", "none", <<Len(data)>>)
    /\ UNCHANGED <<data, version, ordered, persist, files, results, iter, h, writerVars>>

\* the scan of Match that appends the count of the records seen so far
MatchIndicesOneBased(d, accept) ==
    SelectSeq([i \in 1 .. Len(d) |-> i], LAMBDA i : d[i] \in accept)

\* the table positions (0-based, ascending) of the records accept holds for
MatchIndices(d, accept) ==
    LET hit == SelectSeq([i \in 1 .. Len(d) |-> i], LAMBDA i : d[i] \in accept)
    IN  [k \in 1 .. Len(hit) |-> hit[k] - 1]

newResult(tableIndex) == [tableIndex |-> tableIndex, version |-> version]

\* r = table.Match(accept), the Result stored in slot target
Match(accept, target) ==
    /\ Lock
    /\ iter.res # target
    /\ results' = [results EXCEPT ![target] = newResult(MatchIndices(data, accept))]
    /\ ret' = Ret("Match", "none", <<>>)
    /\ UNCHANGED <<data, version, ordered, persist, files, iter, h, writerVars>>

First(accept) ==
    /\ Lock
    /\ LET hit == SelectSeq(data, LAMBDA en : en \in accept)
       IN  ret' = IF Len(hit) > 0
                  THEN Ret("First", "none", <<hit[1]>>)
                  ELSE Ret("First", "notfound", <<>>)
    /\ UNCHANGED <<data, version, ordered, persist, files, results, iter, h, writerVars>>

\* All(yield) with a yield that returns false at its call number stop
All(stop) ==
    /\ Lock
    /\ ret' = Ret("All", "none", SubSeq(data, 1, IF stop < Len(data) THEN stop ELSE Len(data)))
    /\ UNCHANGED <<data, version, ordered, persist, files, results, iter, h, writerVars>>

\* ---- Table.copy, Result.Get, Result.Iter -------------------------------------
\* copy without the comparison of the versions
copyUnchecked(n, ver) ==
    IF n < 0 \/ n >= Len(data)
    THEN [err |-> "copy_range", val |-> <<>>]
    ELSE [err |-> "none", val |-> <<data[n + 1]>>]

\* Table.copy(dest, n, version): the error and what dest receives
copy(n, ver) ==
    IF n < 0 \/ n >= Len(data)
    THEN [err |-> "copy_range", val |-> <<>>]
    ELSE IF version # ver
         THEN [err |-> "changed", val |-> <<>>]
         ELSE [err |-> "none", val |-> <<data[n + 1]>>]

Get(r, n) ==
    /\ Lock
    /\ results[r] # NoResult
    /\ LET R == results[r]
           c == IF n < 0 \/ n >= Len(R.tableIndex)
                THEN [err |-> "item_range", val |-> <<>>]
                ELSE copy(R.tableIndex[n + 1], R.version)
       IN  ret' = Ret("Get", c.err, c.val)
    /\ UNCHANGED <<data, version, ordered, persist, files, results, iter, h, writerVars>>

\* entry of the range loop of Result.Iter: the slice header is read once
IterStart(r) ==
    /\ iter = NoIter
    /\ results[r] # NoResult
    /\ Len(results[r].tableIndex) > 0
    /\ iter' = [res |-> r, pos |-> 1, n |-> Len(results[r].tableIndex), tail |-> <<>>]
    /\ ret' = Ret("IterStart", "none", <<>>)
    /\ UNCHANGED <<data, version, ordered, persist, files, results, h, writerVars>>

\* one pass of the loop body: copy, then yield, which answers cont
IterStep(cont) ==
    /\ Lock
    /\ iter # NoIter
    /\ LET R == results[iter.res]
           c == copy((R.tableIndex \o iter.tail)[iter.pos], R.version)
       IN  /\ ret' = Ret("Iter", c.err, c.val)
           /\ iter' = IF ~cont \/ c.err # "none" \/ iter.pos = iter.n
                      THEN NoIter
                      ELSE [iter EXCEPT !.pos = iter.pos + 1]
    /\ UNCHANGED <<data, version, ordered, persist, files, results, h, writerVars>>

\* ---- Table.delete and Result.Delete -----------------------------------------
\* delete without the comparison of the versions
deleteUnchecked(index, ver, io) ==
    IF index >= Len(data)
    THEN [err |-> "panic", data |-> data, version |-> version, files |-> files, h |-> h]
    ELSE LET e == data[index + 1]
             d == RemoveAt(data, index + 1)
             w == persistItem(d, e, files, io)
         IN  [err |-> w.err, data |-> d, version |-> version + 1, files |-> w.files, h |-> w.h]

\* delete that leaves the version as it is
deleteNoVersion(index, ver, io) ==
    IF version # ver
    THEN [err |-> "changed", data |-> data, version |-> version, files |-> files, h |-> h]
    ELSE IF index >= Len(data)
         THEN [err |-> "panic", data |-> data, version |-> version, files |-> files, h |-> h]
         ELSE LET e == data[index + 1]
                  d == RemoveAt(data, index + 1)
                  w == persistItem(d, e, files, io)
              IN  [err |-> w.err, data |-> d, version |-> version, files |-> w.files, h |-> w.h]

\* Table.delete(index, version) on the current state
delete(index, ver, io) ==
    IF version # ver
    THEN [err |-> "changed", data |-> data, version |-> version, files |-> files, h |-> h]
    ELSE IF index >= Len(data)
         THEN [err |-> "panic", data |-> data, version |-> version, files |-> files, h |-> h]
         ELSE LET e == data[index + 1]
                  d == RemoveAt(data, index + 1)
                  w == persistItem(d, e, files, io)
              IN  [err |-> w.err, data |-> d, version |-> version + 1, files |-> w.files, h |-> w.h]

\* the Result after a Delete(n) that does not decrement the retained indices
AfterDeleteNoShift(R, n) ==
    [tableIndex |-> RemoveAt(R.tableIndex, n + 1), version |-> R.version + 1]

\* the Result after its Delete(n) succeeded: position n removed from the index
\* array, the retained indices above the removed one decremented
AfterDelete(R, n) ==
    LET tableIndex == R.tableIndex[n + 1]
        cut == RemoveAt(R.tableIndex, n + 1)
    IN  [tableIndex |-> [i \in 1 .. Len(cut) |->
                            IF cut[i] > tableIndex THEN cut[i] - 1 ELSE cut[i]],
         version |-> R.version + 1]

\* the loop of Iter after Delete shrank the index array it ranges over: the last
\* element of the old array stays in the backing array, behind the new array
IterAfterDelete(r, R) ==
    IF iter.res = r
    THEN [iter EXCEPT !.tail = <<R.tableIndex[Len(R.tableIndex)]>> \o iter.tail]
    ELSE iter

Delete(r, n, io) ==
    /\ Lock
    /\ results[r] # NoResult
    /\ n < Len(results[r].tableIndex)
    /\ version < MaxVersion
    /\ LET R == results[r]
           t == delete(R.tableIndex[n + 1], R.version, io)
       IN  /\ data' = t.data
           /\ version' = t.version
           /\ files' = t.files
           /\ h' = t.h
           /\ results' = IF t.err = "none"
                         THEN [results EXCEPT ![r] = AfterDelete(R, n)]
                         ELSE results
           /\ iter' = IF t.err = "none" THEN IterAfterDelete(r, R) ELSE iter
           /\ ret' = Ret("Delete", t.err, <<>>)
    /\ UNCHANGED <<ordered, persist, writerVars>>

\* ---- Table.update and Result.Update -----------------------------------------
\* update that increments the version as Insert and delete do
updateBumping(index, ver, e, io) ==
    IF version # ver
    THEN [err |-> "changed", data |-> data, version |-> version, files |-> files, h |-> h]
    ELSE IF index >= Len(data)
         THEN [err |-> "panic", data |-> data, version |-> version, files |-> files, h |-> h]
         ELSE LET ok1 == index = 0 \/ orderLess(data[index], e)
                  ok2 == index = Len(data) - 1 \/ orderLess(e, data[index + 2])
              IN  IF ordered /\ (~ok1 \/ ~ok2)
                  THEN [err |-> "order", data |-> data, version |-> version, files |-> files, h |-> h]
                  ELSE LET d == [data EXCEPT ![index + 1] = e]
                           w == persistItem(d, e, files, io)
                       IN  [err |-> w.err, data |-> d, version |-> version + 1,
                            files |-> w.files, h |-> w.h]

\* update that compares the new record with its predecessor only
updateNoSuccessor(index, ver, e, io) ==
    IF version # ver
    THEN [err |-> "changed", data |-> data, version |-> version, files |-> files, h |-> h]
    ELSE IF index >= Len(data)
         THEN [err |-> "panic", data |-> data, version |-> version, files |-> files, h |-> h]
         ELSE LET ok1 == index = 0 \/ orderLess(data[index], e)
              IN  IF ordered /\ ~ok1
                  THEN [err |-> "order", data |-> data, version |-> version, files |-> files, h |-> h]
                  ELSE LET d == [data EXCEPT ![index + 1] = e]
                           w == persistItem(d, e, files, io)
                       IN  [err |-> w.err, data |-> d, version |-> version, files |-> w.files, h |-> w.h]

\* Table.update(index, version, e) on the current state
update(index, ver, e, io) ==
    IF version # ver
    THEN [err |-> "changed", data |-> data, version |-> version, files |-> files, h |-> h]
    ELSE IF index >= Len(data)
         THEN [err |-> "panic", data |-> data, version |-> version, files |-> files, h |-> h]
         ELSE LET ok1 == index = 0 \/ orderLess(data[index], e)
                  ok2 == index = Len(data) - 1 \/ orderLess(e, data[index + 2])
              IN  IF ordered /\ (~ok1 \/ ~ok2)
                  THEN [err |-> "order", data |-> data, version |-> version, files |-> files, h |-> h]
                  ELSE LET d == [data EXCEPT ![index + 1] = e]
                           w == persistItem(d, e, files, io)
                       IN  [err |-> w.err, data |-> d, version |-> version, files |-> w.files, h |-> w.h]

Update(r, n, e, io) ==
    /\ Lock
    /\ results[r] # NoResult
    /\ n < Len(results[r].tableIndex)
    /\ LET R == results[r]
           t == update(R.tableIndex[n + 1], R.version, e, io)
       IN  /\ data' = t.data
           /\ version' = t.version
           /\ files' = t.files
           /\ h' = t.h
           /\ ret' = Ret("Update", t.err, <<>>)
    /\ UNCHANGED <<ordered, persist, results, iter, writerVars>>

\* ---- mutations through the Result of another caller ---------------------------
\* another caller's o = table.Match(all); o.Delete(i), the two calls not interleaved
OtherDelete(i, io) ==
    /\ Lock
    /\ i < Len(data)
    /\ version < MaxVersion
    /\ LET t == delete(i, version, io)
       IN  /\ data' = t.data
           /\ version' = t.version
           /\ files' = t.files
           /\ h' = t.h
           /\ ret' = Ret("OtherDelete", t.err, <<>>)
    /\ UNCHANGED <<ordered, persist, results, iter, writerVars>>

\* another caller's o = table.Match(all); o.Update(i, e), the two calls not interleaved
OtherUpdate(i, e, io) ==
    /\ Lock
    /\ i < Len(data)
    /\ LET t == update(i, version, e, io)
       IN  /\ data' = t.data
           /\ version' = t.version
           /\ files' = t.files
           /\ h' = t.h
           /\ ret' = Ret("OtherUpdate", t.err, <<>>)
    /\ UNCHANGED <<ordered, persist, results, iter, writerVars>>

\* ---- Table.order and Result.Order ---------------------------------------------
\* order that returns the copy of the index array as it is
orderUnsorted(tableIndex, rel, ver) ==
    IF version # ver
    THEN {[err |-> "changed", so |-> <<>>]}
    ELSE {[err |-> "none", so |-> tableIndex]}

\* Table.order(tableIndex, less, version): the index arrays sort.Slice may leave
order(tableIndex, rel, ver) ==
    IF version # ver
    THEN {[err |-> "changed", so |-> <<>>]}
    ELSE IF \E i \in 1 .. Len(tableIndex) : tableIndex[i] >= Len(data)
         THEN {[err |-> "panic", so |-> <<>>]}
         ELSE {[err |-> "none", so |-> so] :
                  so \in {a \in Arrangements(tableIndex) :
                             SortedBy(rel, [i \in 1 .. Len(a) |-> data[a[i] + 1]])}}

\* o, err = r.Order(less), the new Result stored in slot target
Order(r, rel, target) ==
    /\ Lock
    /\ results[r] # NoResult
    /\ iter.res # target
    /\ \E t \in order(results[r].tableIndex, rel, results[r].version) :
          /\ results' = IF t.err = "none"
                        THEN [results EXCEPT ![target] =
                                 [tableIndex |-> t.so, version |-> results[r].version]]
                        ELSE results
          /\ ret' = Ret("Order", t.err, <<>>)
    /\ UNCHANGED <<data, version, ordered, persist, files, iter, h, writerVars>>

\* the predicates of the tests: every record, and the records equal to a given one
Accepts == {Records} \cup {{e} : e \in Records}

Next ==
    \/ \E less \in BOOLEAN, io \in IOFail : New(less, io)
    \/ \E e \in Records, io \in IOFail : Insert(e, io)
    \/ Size
    \/ \E accept \in Accepts, target \in Slots : Match(accept, target)
    \/ \E accept \in Accepts : First(accept)
    \/ \E stop \in 1 .. (MaxLen + 1) : All(stop)
    \/ \E r \in Slots, n \in 0 .. MaxLen : Get(r, n)
    \/ \E r \in Slots : IterStart(r)
    \/ \E cont \in BOOLEAN : IterStep(cont)
    \/ \E r \in Slots, n \in 0 .. (MaxLen - 1), io \in IOFail : Delete(r, n, io)
    \/ \E r \in Slots, n \in 0 .. (MaxLen - 1), e \in Records, io \in IOFail : Update(r, n, e, io)
    \/ \E i \in 0 .. (MaxLen - 1), io \in IOFail : OtherDelete(i, io)
    \/ \E i \in 0 .. (MaxLen - 1), e \in Records, io \in IOFail : OtherUpdate(i, e, io)
    \/ \E r \in Slots, rel \in OrderRels, target \in Slots : Order(r, rel, target)

Spec == Init /\ [][Next]_vars

\* ---- the same table on a disk whose calls may fail ---------------------------
FaultyConfigs == {<<TRUE, "faulty">>}

InitFaulty ==
    /\ data = <<>>
    /\ version = 0
    /\ \E c \in FaultyConfigs : ordered = c[1] /\ persist = c[2]
    /\ files = [g \in GroupNames |-> NoFile]
    /\ results = [s \in Slots |-> NoResult]
    /\ iter = NoIter
    /\ ret = Ret("New", "none", <<>>)
    /\ NoWriter

SpecFaulty == InitFaulty /\ [][Next]_vars

\* ---- a table that is only filled and reopened --------------------------------
StoreConfigs == {<<TRUE, "reliable">>, <<FALSE, "reliable">>}

InitStore ==
    /\ data = <<>>
    /\ version = 0
    /\ \E c \in StoreConfigs : ordered = c[1] /\ persist = c[2]
    /\ files = [g \in GroupNames |-> NoFile]
    /\ results = [s \in Slots |-> NoResult]
    /\ iter = NoIter
    /\ ret = Ret("New", "none", <<>>)
    /\ NoWriter

NextStore ==
    \/ \E less \in BOOLEAN, io \in IOFail : New(less, io)
    \/ \E e \in Records, io \in IOFail : Insert(e, io)
    \/ Size
    \/ \E accept \in Accepts : First(accept)
    \/ \E stop \in 1 .. (MaxLen + 1) : All(stop)

SpecStore == InitStore /\ [][NextStore]_vars

\* ---- the delayed writer ------------------------------------------------------

\* the delays passed to SetWriteDelay, in seconds
Secs == {0, 1}

\* newDelayHandler(table, sec): the handler and its goroutine at the select
NewHandler(sec) == [sec |-> sec, nameMap |-> <<>>, lastError |-> "none",
                    done |-> FALSE, ack |-> FALSE]

NewGoroutine(sec) == [pc |-> "select", wake |-> now + sec, names |-> <<>>, err |-> "none"]

\* a getModifiedNameList that returns every name of the map
getAllNames ==
    Enumerations(DOMAIN h.nameMap)

\* delayHandler.getModifiedNameList: the names whose deadline has passed, in the
\* order the iteration over the map yields them
getModifiedNameList ==
    Enumerations({name \in DOMAIN h.nameMap : now > h.nameMap[name]})

\* Table.writeFiles(name): what Persist returns for the records of the group
writeFiles(name, io) ==
    Persist(files, name, SelectSeq(data, LAMBDA en : ToFile(en) = name), io)

\* delayHandler.written(name, err): the handler afterwards
written(name, err) ==
    IF err # "none"
    THEN [h EXCEPT !.lastError = err]
    ELSE [h EXCEPT !.nameMap = [x \in DOMAIN h.nameMap \ {name} |-> h.nameMap[x]]]

\* the goroutine: the time.After case of the select
BgTick ==
    /\ bg.pc = "select"
    /\ now >= bg.wake
    /\ \E names \in getModifiedNameList :
          bg' = IF names = <<>>
                THEN [bg EXCEPT !.wake = now + h.sec]
                ELSE [bg EXCEPT !.pc = "write", !.names = names]
    /\ UNCHANGED <<cellVars, th, log, data, version, ordered, persist, files, results, iter, ret, h,
                   m, delayedWrite, sd, swd>>

\* the goroutine: dh.table.writeFiles(name)
BgWriteFiles(io) ==
    /\ bg.pc = "write"
    /\ Lock
    /\ LET w == writeFiles(Head(bg.names), io)
       IN  /\ files' = w.files
           /\ bg' = [bg EXCEPT !.pc = "written", !.err = w.err]
    /\ UNCHANGED <<cellVars, th, log, data, version, ordered, persist, results, iter, ret, h,
                   m, delayedWrite, sd, swd>>

\* the goroutine: dh.written(name, err), then the next name or the select again
BgWritten ==
    /\ bg.pc = "written"
    /\ h' = written(Head(bg.names), bg.err)
    /\ bg' = IF Tail(bg.names) = <<>>
             THEN [pc |-> "select", wake |-> now + h.sec, names |-> <<>>, err |-> "none"]
             ELSE [bg EXCEPT !.pc = "write", !.names = Tail(bg.names), !.err = "none"]
    /\ UNCHANGED <<cellVars, th, log, data, version, ordered, persist, files, results, iter, ret,
                   m, delayedWrite, sd, swd>>

\* the done case of a goroutine that returns without close(ack)
BgDoneNoAck ==
    /\ bg.pc = "select"
    /\ h.done
    /\ bg' = [bg EXCEPT !.pc = "exited"]
    /\ UNCHANGED <<cellVars, th, log, data, version, ordered, persist, files, results, iter, ret, h,
                   m, delayedWrite, sd, swd>>

\* the goroutine: the done case of the select
BgDone ==
    /\ bg.pc = "select"
    /\ h.done
    /\ h' = [h EXCEPT !.ack = TRUE]
    /\ bg' = [bg EXCEPT !.pc = "exited"]
    /\ UNCHANGED <<cellVars, th, log, data, version, ordered, persist, files, results, iter, ret,
                   m, delayedWrite, sd, swd>>

\* Shutdown that does not detach the delayed writer from the table
ShutdownCallKeep ==
    /\ Lock
    /\ sd.pc = "idle"
    /\ IF delayedWrite /\ ~h.done
       THEN /\ h' = [h EXCEPT !.done = TRUE]
            /\ sd' = [sd EXCEPT !.pc = "wait"]
            /\ UNCHANGED ret
       ELSE /\ ret' = Ret("Shutdown", "none", <<>>)
            /\ UNCHANGED <<h, sd>>
    /\ UNCHANGED <<cellVars, th, log, data, version, ordered, persist, files, results, iter, m, bg, swd,
                   delayedWrite>>

\* Table.Shutdown up to close(h.done); with no delayed writer it returns at once,
\* also when it is called while another Shutdown is in progress
ShutdownCall ==
    /\ Lock
    /\ sd.pc = "idle" \/ ~delayedWrite
    /\ IF delayedWrite
       THEN /\ delayedWrite' = FALSE
            /\ h' = [h EXCEPT !.done = TRUE]
            /\ sd' = [sd EXCEPT !.pc = "wait"]
            /\ UNCHANGED ret
       ELSE /\ ret' = Ret("Shutdown", "none", <<>>)
            /\ UNCHANGED <<delayedWrite, h, sd>>
    /\ UNCHANGED <<cellVars, th, log, data, version, ordered, persist, files, results, iter, m, bg, swd>>

\* the return of Shutdown: nothing refers to the handler and its goroutine any more
ShutdownReturn ==
    /\ sd' = NoCall
    /\ h' = NoHandler
    /\ bg' = NoGoroutine
    /\ ret' = Ret("Shutdown", "none", <<>>)

\* delayHandler.shutdown in Shutdown: <-h.ack, then the range over h.nameMap
ShutdownAck ==
    /\ sd.pc = "wait"
    /\ h.ack
    /\ \E names \in Enumerations(DOMAIN h.nameMap) :
          IF names = <<>>
          THEN ShutdownReturn
          ELSE sd' = [sd EXCEPT !.pc = "flush", !.names = names] /\ UNCHANGED <<ret, h, bg>>
    /\ UNCHANGED <<cellVars, th, log, data, version, ordered, persist, files, results, iter,
                   m, delayedWrite, swd>>

\* delayHandler.shutdown in Shutdown: h.table.writeFiles(name), its error logged;
\* Shutdown returns after the last name
ShutdownWrite(io) ==
    /\ sd.pc = "flush"
    /\ Lock
    /\ files' = writeFiles(Head(sd.names), io).files
    /\ IF Tail(sd.names) = <<>>
       THEN ShutdownReturn
       ELSE sd' = [sd EXCEPT !.names = Tail(sd.names)] /\ UNCHANGED <<ret, h, bg>>
    /\ UNCHANGED <<cellVars, th, log, data, version, ordered, persist, results, iter,
                   m, delayedWrite, swd>>

\* the end of SetWriteDelay(sec): the new handler when sec > 0; nothing refers to
\* the handler that was shut down any more
SetWriteDelayEnd(sec) ==
    /\ delayedWrite' = (sec > 0)
    /\ IF sec > 0
       THEN h' = NewHandler(sec) /\ bg' = NewGoroutine(sec)
       ELSE IF delayedWrite
            THEN h' = NoHandler /\ bg' = NoGoroutine
            ELSE UNCHANGED <<h, bg>>
    /\ m' = "free"
    /\ swd' = NoCall
    /\ ret' = Ret("SetWriteDelay", "none", <<>>)

\* Table.SetWriteDelay(sec) up to close(h.done): it keeps t.m locked; with no
\* delayed writer it runs to its end.  A handler is created only when no Shutdown
\* is still working on the previous one.
SetWriteDelayCall(sec) ==
    /\ Lock
    /\ swd.pc = "idle"
    /\ sec > 0 => sd.pc = "idle"
    /\ IF delayedWrite
       THEN /\ m' = "SetWriteDelay"
            /\ h' = [h EXCEPT !.done = TRUE]
            /\ swd' = [swd EXCEPT !.pc = "wait", !.sec = sec]
            /\ UNCHANGED <<delayedWrite, bg, ret>>
       ELSE SetWriteDelayEnd(sec)
    /\ UNCHANGED <<cellVars, th, log, data, version, ordered, persist, files, results, iter, sd>>

\* delayHandler.shutdown in SetWriteDelay: <-h.ack, then the range over h.nameMap
SetWriteDelayAck ==
    /\ swd.pc = "wait"
    /\ h.ack
    /\ \E names \in Enumerations(DOMAIN h.nameMap) :
          swd' = [swd EXCEPT !.pc = "flush", !.names = names]
    /\ UNCHANGED <<cellVars, th, log, data, version, ordered, persist, files, results, iter, ret, h,
                   m, delayedWrite, bg, sd>>

\* delayHandler.shutdown in SetWriteDelay: h.table.writeFiles(name), which locks
\* t.m, for every name; then the end of SetWriteDelay
SetWriteDelayFlush(io) ==
    /\ swd.pc = "flush"
    /\ IF swd.names = <<>>
       THEN /\ SetWriteDelayEnd(swd.sec)
            /\ UNCHANGED files
       ELSE /\ Lock
            /\ files' = writeFiles(Head(swd.names), io).files
            /\ swd' = [swd EXCEPT !.names = Tail(swd.names)]
            /\ UNCHANGED <<m, delayedWrite, h, bg, ret>>
    /\ UNCHANGED <<cellVars, th, log, data, version, ordered, persist, results, iter, sd>>

\* a deadline t one second later; a deadline that has passed stays passed
Age(t) == IF t > -1 THEN t - 1 ELSE t

\* the time t at which a timer fires, one second later; a timer that has fired
\* stays fired
AgeTimer(t) == IF t > 0 THEN t - 1 ELSE t

\* a second passes
Advance ==
    /\ h' = [h EXCEPT !.nameMap = [x \in DOMAIN h.nameMap |-> Age(h.nameMap[x])]]
    /\ bg' = [bg EXCEPT !.wake = AgeTimer(bg.wake)]
    /\ UNCHANGED <<cellVars, th, log, data, version, ordered, persist, files, results, iter, ret,
                   m, delayedWrite, sd, swd>>

\* an ordered table over a reliable back-end after SetWriteDelay(sec) with a
\* positive sec, as in TestStorageSerializerDelay
InitDelay ==
    /\ data = <<>>
    /\ version = 0
    /\ ordered = TRUE
    /\ persist = "reliable"
    /\ files = [g \in GroupNames |-> NoFile]
    /\ results = [s \in Slots |-> NoResult]
    /\ iter = NoIter
    /\ ret = Ret("SetWriteDelay", "none", <<>>)
    /\ m = "free"
    /\ delayedWrite = TRUE
    /\ \E sec \in Secs \ {0} : h = NewHandler(sec) /\ bg = NewGoroutine(sec)
    /\ sd = NoCall
    /\ swd = NoCall
    /\ th = [t \in Threads |-> NoThread]
    /\ log = <<>>
    /\ NoCells
    /\ arg = <<>>

\* the delayed writer and the callers of Insert, Delete and Update
NextDelay ==
    \/ \E e \in Records, io \in IOFail : Insert(e, io)
    \/ \E i \in 0 .. (MaxLen - 1), io \in IOFail : OtherDelete(i, io)
    \/ \E i \in 0 .. (MaxLen - 1), e \in Records, io \in IOFail : OtherUpdate(i, e, io)
    \/ BgTick
    \/ \E io \in IOFail : BgWriteFiles(io)
    \/ BgWritten
    \/ Advance

SpecDelay == InitDelay /\ [][NextDelay]_vars

\* the delayed writer, the callers of Insert and Delete, Shutdown, and the callers
\* of Update once Shutdown has returned
NextShutdown ==
    \/ \E e \in Records, io \in IOFail : Insert(e, io)
    \/ \E i \in 0 .. (MaxLen - 1), io \in IOFail : OtherDelete(i, io)
    \/ \E i \in 0 .. (MaxLen - 1), e \in Records, io \in IOFail :
          ~delayedWrite /\ sd.pc = "idle" /\ OtherUpdate(i, e, io)
    \/ BgTick
    \/ \E io \in IOFail : BgWriteFiles(io)
    \/ BgWritten
    \/ BgDone
    \/ ShutdownCall
    \/ ShutdownAck
    \/ \E io \in IOFail : ShutdownWrite(io)
    \/ Advance

SpecShutdown == InitDelay /\ [][NextShutdown]_vars

\* the scheduler runs a goroutine or a caller that can take a step; the select
\* of the goroutine chooses at random among the cases that are ready, so the done
\* case, ready whenever the goroutine is back at the select, is taken in the end
ShutdownFairness ==
    /\ WF_vars(\E io \in IOFail : BgWriteFiles(io))
    /\ WF_vars(BgWritten)
    /\ SF_vars(BgDone)
    /\ WF_vars(ShutdownAck)
    /\ WF_vars(\E io \in IOFail : ShutdownWrite(io))

SpecShutdownFair == InitDelay /\ [][NextShutdown]_vars /\ ShutdownFairness

\* the delayed writer, the callers of Insert and Delete, and SetWriteDelay
NextSetDelay ==
    \/ \E e \in Records, io \in IOFail : Insert(e, io)
    \/ \E i \in 0 .. (MaxLen - 1), io \in IOFail : OtherDelete(i, io)
    \/ BgTick
    \/ \E io \in IOFail : BgWriteFiles(io)
    \/ BgWritten
    \/ BgDone
    \/ \E sec \in Secs : SetWriteDelayCall(sec)
    \/ SetWriteDelayAck
    \/ \E io \in IOFail : SetWriteDelayFlush(io)
    \/ Advance

SpecSetDelay == InitDelay /\ [][NextSetDelay]_vars

\* ---- properties ----------------------------------------------------------------
Valid(r) == results[r] # NoResult /\ results[r].version = version

Stale(r) == results[r] # NoResult /\ results[r].version # version

\* the positions of the Result in slot r
Positions(r) == 0 .. (Len(results[r].tableIndex) - 1)

\* the records of d that map to the group name, in table order: what persistItem
\* and writeFiles hand to the back-end
GroupOf(d, name) == SelectSeq(d, LAMBDA en : ToFile(en) = name)

\* a call on the Result in slot r that reads or changes the table through it
UseOf(r) ==
    \/ \E n \in Positions(r) : Get(r, n)
    \/ iter.res = r /\ \E cont \in BOOLEAN : IterStep(cont)
    \/ \E n \in Positions(r), io \in BOOLEAN : Delete(r, n, io)
    \/ \E n \in Positions(r), e \in Records, io \in BOOLEAN : Update(r, n, e, io)
    \/ \E rel \in OrderRels, target \in Slots : Order(r, rel, target)

\* the step is a mutation with one of the given names that reported no error
Succeeded(ops) == ret'.op \in ops /\ ret'.err = "none"

C3_StaleUseReportsChanged ==
    [][\A r \in Slots :
          Stale(r) /\ UseOf(r)
             => ret'.err = "changed" /\ UNCHANGED <<data, version, files>>]_vars

\* C4: the sequence of a table with an order relation is sorted: no element is
\* less than its predecessor.
C4_Sorted == ordered => Sorted(data)

\* an Insert has put a second, different record into an ordered table
C4_Witness ==
    /\ ordered
    /\ ret = Ret("Insert", "none", <<>>)
    /\ Len(data) = 2
    /\ data[1] # data[2]

\* C5: on an ordered table Insert(e) reports no error and places e before the
\* leftmost element it is less than, or at the end when there is none.
C5_InsertPlaces ==
    [][\A e \in Records :
          ordered /\ Insert(e, FALSE)
             => LET above == {i \in 1 .. Len(data) : orderLess(e, data[i])}
                    p == IF above = {} THEN Len(data) + 1 ELSE Min(above)
                IN  ret'.err = "none" /\ data' = InsertAt(data, p, e)]_vars

\* C6: Delete(0) on a valid Result that holds records succeeds, shortens the
\* Result by one, removes the record it referred to and leaves the Result valid
\* (so that k calls in a row empty a Result of k records).
C6_DeleteFirstSucceeds ==
    [][\A r \in Slots :
          Valid(r) /\ Len(results[r].tableIndex) > 0 /\ (\E io \in BOOLEAN : Delete(r, 0, io))
             => /\ ret'.err = "none"
                /\ Valid(r)'
                /\ Len(results'[r].tableIndex) = Len(results[r].tableIndex) - 1
                /\ data' = RemoveAt(data, results[r].tableIndex[1] + 1)]_vars

\* C7: a successful Delete(n) advances the version of the table and of the Result
\* by one, so that they stay equal; the index array loses position n, the retained
\* indices above the removed one are decremented, and every remaining position
\* refers to the record it referred to before.
C7_DeleteKeepsResult ==
    [][\A r \in Slots : \A n \in Positions(r) :
          (\E io \in BOOLEAN : Delete(r, n, io)) /\ ret'.err = "none"
             => LET old == results[r].tableIndex
                    new == results'[r].tableIndex
                IN  /\ version' = version + 1
                    /\ results'[r].version = results[r].version + 1
                    /\ results'[r].version = version'
                    /\ Len(new) = Len(old) - 1
                    /\ \A j \in Positions(r) \ {n} :
                          LET k == IF j < n THEN j + 1 ELSE j
                          IN  /\ new[k] = IF old[j + 1] > old[n + 1]
                                          THEN old[j + 1] - 1 ELSE old[j + 1]
                              /\ new[k] < Len(data')
                              /\ data'[new[k] + 1] = data[old[j + 1] + 1]]_vars

\* a Delete succeeded on a Result that still holds a position afterwards
C7_Witness ==
    /\ ret = Ret("Delete", "none", <<>>)
    /\ Valid(1)
    /\ Len(results[1].tableIndex) > 0

\* C8: on an ordered table, Update(n, e) through a valid Result succeeds exactly
\* when the predecessor of the slot is less than e and e is less than its
\* successor (a missing neighbour counts as satisfied); otherwise it reports the
\* order violation and changes neither the sequence, the version nor the files.
C8_UpdateOrderCheck ==
    [][\A r \in Slots : \A n \in Positions(r) : \A e \in Records :
          ordered /\ Valid(r) /\ Update(r, n, e, FALSE)
             => LET i == results[r].tableIndex[n + 1]
                    fits == /\ i = 0 \/ orderLess(data[i], e)
                            /\ i = Len(data) - 1 \/ orderLess(e, data[i + 2])
                IN  IF fits
                    THEN ret'.err = "none" /\ data' = [data EXCEPT ![i + 1] = e]
                    ELSE ret'.err = "order" /\ UNCHANGED <<data, version, files>>]_vars

\* an Update through a valid Result was rejected for the order
C8_Witness ==
    /\ ordered
    /\ Valid(1)
    /\ Len(data) = 2
    /\ ret = Ret("Update", "order", <<>>)

\* C9: after a successful Update the Result is valid, its version has moved as
\* much as the table's, and no use of a valid Result reports the staleness error.
C9_ValidAfterUpdate ==
    [][\A r \in Slots :
          /\ (\E n \in Positions(r), e \in Records, io \in BOOLEAN : Update(r, n, e, io))
                /\ ret'.err = "none"
                => /\ Valid(r)'
                   /\ version' - version = results'[r].version - results[r].version
          /\ Valid(r) /\ UseOf(r) => ret'.err # "changed"]_vars

\* an Update succeeded and its Result is valid
C9_Witness ==
    /\ ret = Ret("Update", "none", <<>>)
    /\ Valid(1)
    /\ Len(results[1].tableIndex) > 0

C11_LastDeleteRemovesFile ==
    [][\A i \in 1 .. Len(data) :
          /\ persist = "reliable" /\ ~delayedWrite
          /\ ret'.op \in {"Delete", "OtherDelete"} /\ ret'.err = "none"
          /\ data' = RemoveAt(data, i)
          /\ GroupOf(data', ToFile(data[i])) = <<>>
          => \A g \in GroupNames : files'[g] = GroupOf(data', g)]_vars

\* the dirty map after the group name has been stamped with now + delay
Stamped(name) == (name :> (now + h.sec)) @@ h.nameMap

\* C12: while a delayed writer is active, Insert, Delete and Update leave the files
\* as they are; an applied mutation stamps the group of its record with the
\* deadline now + delay and leaves the other deadlines alone, a rejected one
\* leaves the dirty map alone.
C12_DelayedMutationWritesNothing ==
    [][delayedWrite =>
          /\ \A e \in Records :
                ret'.op = "Insert" /\ Insert(e, FALSE)
                   => /\ files' = files
                      /\ h'.nameMap = IF ret'.err = "impossible"
                                      THEN h.nameMap ELSE Stamped(ToFile(e))
          /\ \A i \in 0 .. (Len(data) - 1) :
                ret'.op = "OtherDelete" /\ OtherDelete(i, FALSE)
                   => /\ files' = files
                      /\ h'.nameMap = Stamped(ToFile(data[i + 1]))
          /\ \A i \in 0 .. (Len(data) - 1), e \in Records :
                ret'.op = "OtherUpdate" /\ OtherUpdate(i, e, FALSE)
                   => /\ files' = files
                      /\ h'.nameMap = IF ret'.err = "order"
                                      THEN h.nameMap ELSE Stamped(ToFile(e))]_vars

\* a Delete under an active delayed writer has left the file of the group as it
\* was, still holding the deleted record, and has stamped the group
C12_Witness ==
    /\ delayedWrite
    /\ ret = Ret("OtherDelete", "none", <<>>)
    /\ \E g \in DOMAIN h.nameMap :
          /\ h.nameMap[g] = h.sec
          /\ files[g] # NoFile
          /\ files[g] # GroupOf(data, g)

\* C13: the background task writes a group only after the deadline of the last
\* mutation of the group, and the write that takes the group out of the dirty map
\* is one made after that deadline: a burst of mutations gets one write, after
\* the deadline of its last mutation.
C13_OneWriteAfterDeadline ==
    [][/\ bg.pc = "write" /\ bg'.pc = "written"
          => now > h.nameMap[Head(bg.names)]
       /\ bg.pc = "written" /\ bg'.pc # "written" /\ bg.err = "none"
          => now > h.nameMap[Head(bg.names)]]_vars

\* C14: under a delayed writer an Insert or Delete leaves every file as it is (no
\* file right after the Inserts into an empty group, the file still in place right
\* after the Deletes); a write of the background task leaves the group's file
\* holding exactly the records the group has (all K after K Inserts, no file after
\* all were deleted) and touches no other file, and it reports no error unless
\* the group has neither records nor a file.
C14_Quiescence ==
    [][/\ delayedWrite /\ ret'.op \in {"Insert", "OtherDelete"} /\ version' # version
          => files' = files
       /\ bg.pc = "write" /\ bg'.pc = "written"
          => LET g == Head(bg.names)
             IN  /\ files'[g] = GroupOf(data, g)
                 /\ \A x \in GroupNames \ {g} : files'[x] = files[x]
                 /\ GroupOf(data, g) # <<>> \/ files[g] # NoFile => bg'.err = "none"]_vars

\* the background task has removed the file of a group after two Inserts into the
\* group, a flush, and the Deletes of both records
C14_Witness ==
    /\ bg.pc = "written"
    /\ bg.err = "none"
    /\ data = <<>>
    /\ version = 4
    /\ \A g \in GroupNames : files[g] = NoFile
    /\ ret = Ret("OtherDelete", "none", <<>>)

\* C15: when a Shutdown that found a delayed writer returns, the disk holds the
\* table: the file of every group holds exactly the records of the group (no file
\* for a group without records).
C15_ShutdownFlushesAll ==
    [][sd.pc # "idle" /\ sd'.pc = "idle"
          => \A g \in GroupNames : files'[g] = GroupOf(data', g)]_vars

\* C16: once Shutdown has returned the table is in immediate mode: an applied
\* Insert, Delete or Update leaves the file of its record's group holding exactly
\* the records of the group (no file when there is none), and no handler is
\* touched.
C16_ImmediateAfterShutdown ==
    [][sd.pc = "idle" /\ bg.pc = "none" =>
          /\ ~delayedWrite
          /\ \A e \in Records :
                ret'.op = "Insert" /\ Insert(e, FALSE) /\ ret'.err # "impossible"
                   => files'[ToFile(e)] = GroupOf(data', ToFile(e)) /\ h' = NoHandler
          /\ \A i \in 0 .. (Len(data) - 1) :
                ret'.op = "OtherDelete" /\ OtherDelete(i, FALSE)
                   => /\ files'[ToFile(data[i + 1])] = GroupOf(data', ToFile(data[i + 1]))
                      /\ h' = NoHandler
          /\ \A i \in 0 .. (Len(data) - 1), e \in Records :
                ret'.op = "OtherUpdate" /\ OtherUpdate(i, e, FALSE) /\ ret'.err # "order"
                   => files'[ToFile(e)] = GroupOf(data', ToFile(e)) /\ h' = NoHandler]_vars

\* after a Shutdown that flushed a record, an Update has replaced the record and
\* its file holds the new record
C16_Witness ==
    /\ sd.pc = "idle" /\ bg.pc = "none"
    /\ ret = Ret("OtherUpdate", "none", <<>>)
    /\ Len(data) = 1
    /\ files[ToFile(data[1])] = data
    /\ ~delayedWrite

\* C17: a Shutdown that was called returns, whatever the background task and the
\* other callers are doing; a Shutdown on a table without delayed writer, called
\* after or during another Shutdown, returns without error and changes nothing.
C17_ShutdownTerminates ==
    /\ (sd.pc # "idle") ~> (sd.pc = "idle")
    /\ [][~delayedWrite /\ ShutdownCall
             => /\ ret' = Ret("Shutdown", "none", <<>>)
                /\ UNCHANGED <<data, version, files, h, bg, sd, delayedWrite, m>>]_vars

\* Shutdown waits for the acknowledgement while the background task is in the
\* middle of a tick flush
C17_Witness ==
    /\ sd.pc = "wait"
    /\ h.done /\ ~h.ack
    /\ bg.pc = "written"
    /\ Len(bg.names) = 2

\* C18: SetWriteDelay(0) on a table with an active delayed writer returns, also
\* with dirty groups pending or a tick in progress: while the call has not
\* returned, the call itself or the goroutine it waits for can take a step.
C18_SetWriteDelayNotBlocked ==
    (swd.pc # "idle" /\ swd.sec = 0)
       => ENABLED (\/ SetWriteDelayAck
                   \/ \E io \in IOFail : SetWriteDelayFlush(io)
                   \/ \E io \in IOFail : BgWriteFiles(io)
                   \/ BgWritten
                   \/ BgDone)

\* the step is a call of Insert, Delete or Update
MutationCall ==
    \/ ret'.op = "Insert" /\ \E e \in Records : Insert(e, FALSE)
    \/ ret'.op = "OtherDelete" /\ \E i \in 0 .. (Len(data) - 1) : OtherDelete(i, FALSE)
    \/ ret'.op = "OtherUpdate"
          /\ \E i \in 0 .. (Len(data) - 1), e \in Records : OtherUpdate(i, e, FALSE)

\* the call was refused before it changed the table
Rejected(r) == r.err \in {"impossible", "order", "changed", "range"}

\* a failed flush leaves the group in the dirty map and stores the error
FailedFlushStored ==
    BgWritten /\ bg.err # "none"
       => /\ h'.nameMap = h.nameMap
          /\ Head(bg.names) \in DOMAIN h'.nameMap
          /\ h'.lastError = bg.err

\* C19 as stated: a failed flush leaves the group dirty and stores the error, and
\* the next call of Insert, Delete or Update, whatever its outcome, returns the
\* stored error and clears it.
C19_NextMutationReports ==
    [][/\ FailedFlushStored
       /\ delayedWrite /\ h.lastError # "none" /\ MutationCall
             => /\ ret'.err = h.lastError
                /\ h'.lastError = "none"]_vars

\* C19, amended: a failed flush leaves the group dirty and stores the error; a
\* call of Insert, Delete or Update that changes the table returns the stored
\* error, or none if none is stored, and leaves none stored; a call that is
\* refused returns its own error and leaves the stored one for a later call.
C19_AppliedMutationReportsOnce ==
    [][/\ FailedFlushStored
       /\ delayedWrite /\ MutationCall
             => IF Rejected(ret')
                THEN h'.lastError = h.lastError
                ELSE /\ ret'.err = h.lastError
                     /\ h'.lastError = "none"]_vars

\* a mutation has just returned the error of an earlier failed flush; the group
\* of that flush is still dirty
C19_Witness ==
    /\ delayedWrite
    /\ ret.op \in {"Insert", "OtherDelete", "OtherUpdate"}
    /\ ret.err = "io"
    /\ h.lastError = "none"
    /\ \E g \in DOMAIN h.nameMap : files[g] = NoFile /\ GroupOf(data, g) = <<>>

\* ---- Insert, Delete and Update called from several goroutines ------------------
MaxOps == 3

\* t.m.Lock() without waiting for the lock to be free
AcquireUnlocked(t) == m' = t

\* t.m.Lock() by goroutine t
Acquire(t) == Lock /\ m' = t

\* the calls goroutine t can make: Insert(e), and Delete(i) and Update(i, e)
\* through the Result it holds
Calls(t) ==
    {[op |-> "Insert", e |-> e, i |-> 0, ver |-> 0] : e \in Records}
      \cup {[op |-> "Delete", e |-> 0, i |-> i, ver |-> th[t].ver] :
               i \in 0 .. (th[t].n - 1)}
      \cup {[op |-> "Update", e |-> e, i |-> i, ver |-> th[t].ver] :
               i \in 0 .. (th[t].n - 1), e \in Records}

\* goroutine t: r = table.Match(all), in place of the Result it held
ThMatch(t) ==
    /\ th[t].pc = "idle"
    /\ Lock
    /\ th' = [th EXCEPT ![t].ver = version, ![t].n = Len(data)]
    /\ ret' = Ret("Match", "none", <<>>)
    /\ UNCHANGED <<cellVars, data, version, ordered, persist, files, results, iter, h,
                   m, delayedWrite, bg, sd, swd, log>>

\* goroutine t enters Insert, Table.delete or Table.update: t.m.Lock()
ThLock(t, o) ==
    /\ th[t].pc = "idle"
    /\ Len(log) < MaxOps
    /\ o.op \in {"Insert", "Delete"} => version < MaxVersion
    /\ o.op = "Insert" => Len(data) < MaxLen
    /\ Acquire(t)
    /\ th' = [th EXCEPT ![t].pc = "locked", ![t].op = o.op, ![t].e = o.e,
                        ![t].i = o.i, ![t].k = Len(log) + 1]
    /\ log' = Append(log, [by |-> t, op |-> o.op, e |-> o.e, i |-> o.i,
                           ver |-> o.ver, err |-> "pending"])
    /\ UNCHANGED <<cellVars, data, version, ordered, persist, files, results, iter, ret, h,
                   delayedWrite, bg, sd, swd>>

\* what the body of the method goroutine t is in makes of t.data and t.version
Outcome(t) ==
    IF th[t].op = "Insert"
    THEN LET p == InsertPos(data, th[t].e)
             d == InsertAt(data, p, th[t].e)
         IN  IF p = 0
             THEN [err |-> "impossible", data |-> data, version |-> version]
             ELSE [err |-> persistItem(d, th[t].e, files, FALSE).err,
                   data |-> d, version |-> version + 1]
    ELSE LET w == IF th[t].op = "Delete"
                  THEN delete(th[t].i, th[t].ver, FALSE)
                  ELSE update(th[t].i, th[t].ver, th[t].e, FALSE)
         IN  [err |-> w.err, data |-> w.data, version |-> w.version]

\* goroutine t in the body of its method: the checks and the reads of t.data and
\* t.version
ThRead(t) ==
    /\ th[t].pc = "locked"
    /\ th' = [th EXCEPT ![t].pc = "read", ![t].r = Outcome(t)]
    /\ UNCHANGED <<cellVars, data, version, ordered, persist, files, results, iter, ret, h,
                   m, delayedWrite, bg, sd, swd, log>>

\* goroutine t in the body of its method: the writes of t.data and t.version, then
\* the deferred t.m.Unlock() and the return; a Delete that succeeded has taken the
\* record out of the Result of t and advanced its version
ThWrite(t) ==
    /\ th[t].pc = "read"
    /\ data' = th[t].r.data
    /\ version' = th[t].r.version
    /\ m' = "free"
    /\ log' = [log EXCEPT ![th[t].k].err = th[t].r.err]
    /\ ret' = Ret(th[t].op, th[t].r.err, <<>>)
    /\ th' = [th EXCEPT ![t] =
                 IF th[t].op = "Delete" /\ th[t].r.err = "none"
                 THEN [NoThread EXCEPT !.ver = th[t].ver + 1, !.n = th[t].n - 1]
                 ELSE [NoThread EXCEPT !.ver = th[t].ver, !.n = th[t].n]]
    /\ UNCHANGED <<cellVars, ordered, persist, files, results, iter, h, delayedWrite,
                   bg, sd, swd>>

\* a table without back-end, with and without order
InitThreads ==
    /\ data = <<>>
    /\ version = 0
    /\ ordered \in BOOLEAN
    /\ persist = "nil"
    /\ files = [g \in GroupNames |-> NoFile]
    /\ results = [s \in Slots |-> NoResult]
    /\ iter = NoIter
    /\ ret = Ret("New", "none", <<>>)
    /\ NoWriter

NextThreads ==
    \/ \E t \in Threads : ThMatch(t)
    \/ \E t \in Threads : \E o \in Calls(t) : ThLock(t, o)
    \/ \E t \in Threads : ThRead(t)
    \/ \E t \in Threads : ThWrite(t)

SpecThreads == InitThreads /\ [][NextThreads]_vars

\* the call o made on a table that holds s.data at version s.version, alone
ApplyCall(s, o) ==
    IF o.op = "Insert"
    THEN LET p == InsertPos(s.data, o.e)
         IN  IF p = 0
             THEN [err |-> "impossible", data |-> s.data, version |-> s.version]
             ELSE [err |-> "none", data |-> InsertAt(s.data, p, o.e),
                   version |-> s.version + 1]
    ELSE IF s.version # o.ver
         THEN [err |-> "changed", data |-> s.data, version |-> s.version]
         ELSE IF o.op = "Delete"
              THEN [err |-> "none", data |-> RemoveAt(s.data, o.i + 1),
                    version |-> s.version + 1]
              ELSE LET ok1 == o.i = 0 \/ orderLess(s.data[o.i], o.e)
                       ok2 == o.i = Len(s.data) - 1 \/ orderLess(o.e, s.data[o.i + 2])
                   IN  IF ordered /\ (~ok1 \/ ~ok2)
                       THEN [err |-> "order", data |-> s.data, version |-> s.version]
                       ELSE [err |-> "none", data |-> [s.data EXCEPT ![o.i + 1] = o.e],
                             version |-> s.version]

\* the calls of l made one after the other on the new table: the table at the end
\* and the errors returned
RECURSIVE Replay(_)
Replay(l) ==
    IF l = <<>>
    THEN [data |-> <<>>, version |-> 0, errs |-> <<>>]
    ELSE LET s == Replay(SubSeq(l, 1, Len(l) - 1))
             a == ApplyCall(s, l[Len(l)])
         IN  [data |-> a.data, version |-> a.version, errs |-> Append(s.errs, a.err)]

\* no goroutine is inside a call
Quiet == \A t \in Threads : th[t].pc = "idle"

\* the calls of kind ops that returned without error
Done(ops) == {k \in 1 .. Len(log) : log[k].op \in ops /\ log[k].err = "none"}

\* the table and the returned errors are those of the calls made one after the
\* other in the order of their lock acquisition, and no Insert is lost
Sequential ==
    LET s == Replay(log)
    IN  /\ data = s.data
        /\ \A k \in 1 .. Len(log) : log[k].err = s.errs[k]
        /\ Len(data) = Cardinality(Done({"Insert"})) - Cardinality(Done({"Delete"}))

Deref(hp, d) == [i \in 1 .. Len(d) |-> hp[d[i]]]

\* the cells neither the table nor the caller points to
Free == Addrs \ (held \cup Range(data))

\* the cell a new variable gets: which of the free cells it is makes no difference
NewCell == Min(Free)

\* the memory hp after the cell a has been given up
Release(hp, a) == [hp EXCEPT ![a] = 0]

\* the default deepCopy of New, *dst = *src: the memory afterwards
deepCopy(dst, src) == [heap EXCEPT ![dst] = heap[src]]

\* the caller makes a record of its own
CallerNew(v) ==
    /\ Free # {}
    /\ heap' = [heap EXCEPT ![NewCell] = v]
    /\ held' = held \cup {NewCell}
    /\ ret' = Ret("CallerNew", "none", <<>>)
    /\ UNCHANGED <<data, version, ordered, persist, files, results, iter, h,
                   m, delayedWrite, bg, sd, swd, th, log, arg>>

\* the caller changes a record it holds a pointer to
CallerSet(a, v) ==
    /\ a \in held
    /\ heap[a] # v
    /\ heap' = [heap EXCEPT ![a] = v]
    /\ ret' = Ret("CallerSet", "none", <<>>)
    /\ UNCHANGED <<data, version, ordered, persist, files, results, iter, h,
                   m, delayedWrite, bg, sd, swd, th, log, held, arg>>

\* the caller forgets a pointer
CallerDrop(a) ==
    /\ a \in held
    /\ held' = held \ {a}
    /\ heap' = IF a \in Range(data) THEN heap ELSE Release(heap, a)
    /\ ret' = Ret("CallerDrop", "none", <<>>)
    /\ UNCHANGED <<data, version, ordered, persist, files, results, iter, h,
                   m, delayedWrite, bg, sd, swd, th, log, arg>>

\* an Insert that stores the pointer of the caller instead of a copy
CellInsertShared(a) ==
    /\ Lock
    /\ a \in held
    /\ Len(data) < MaxLen
    /\ version < MaxVersion
    /\ LET p == InsertPos(Deref(heap, data), heap[a])
       IN  IF p = 0
           THEN /\ ret' = Ret("Insert", "impossible", <<>>)
                /\ UNCHANGED <<data, version, heap>>
           ELSE /\ data' = InsertAt(data, p, a)
                /\ version' = version + 1
                /\ ret' = Ret("Insert", "none", <<>>)
                /\ UNCHANGED heap
    /\ UNCHANGED <<ordered, persist, files, results, iter, h,
                   m, delayedWrite, bg, sd, swd, th, log, held, arg>>

\* Table.Insert(e) with e the cell a of the caller: the record is copied to the
\* new cell n, and n is what t.data gets
CellInsert(a) ==
    /\ Lock
    /\ a \in held
    /\ Len(data) < MaxLen
    /\ version < MaxVersion
    /\ Free # {}
    /\ LET n == NewCell
           p == InsertPos(Deref(heap, data), heap[a])
       IN  IF p = 0
           THEN /\ ret' = Ret("Insert", "impossible", <<>>)
                /\ UNCHANGED <<data, version, heap>>
           ELSE /\ heap' = deepCopy(n, a)
                /\ data' = InsertAt(data, p, n)
                /\ version' = version + 1
                /\ ret' = Ret("Insert", "none", <<>>)
    /\ UNCHANGED <<ordered, persist, files, results, iter, h,
                   m, delayedWrite, bg, sd, swd, th, log, held, arg>>

\* Result.Get(dst, n) and Table.First(dst, accept) on a record at table index i:
\* the record is copied to the cell dst of the caller
CellGet(dst, i) ==
    /\ Lock
    /\ dst \in held
    /\ i < Len(data)
    /\ heap' = deepCopy(dst, data[i + 1])
    /\ ret' = Ret("Get", "none", <<>>)
    /\ UNCHANGED <<data, version, ordered, persist, files, results, iter, h,
                   m, delayedWrite, bg, sd, swd, th, log, held, arg>>

\* Table.All and Result.Iter at table index i: the record is copied to a new cell
\* and the yield function gets the pointer to it
CellYield(i) ==
    /\ Lock
    /\ i < Len(data)
    /\ Free # {}
    /\ heap' = deepCopy(NewCell, data[i + 1])
    /\ held' = held \cup {NewCell}
    /\ ret' = Ret("All", "none", <<>>)
    /\ UNCHANGED <<data, version, ordered, persist, files, results, iter, h,
                   m, delayedWrite, bg, sd, swd, th, log, arg>>

\* Result.Update(n, e) on table index i with e the cell a of the caller: the
\* record of the caller is copied into the cell of the table
CellUpdate(i, a) ==
    /\ Lock
    /\ a \in held
    /\ i < Len(data)
    /\ LET d == Deref(heap, data)
           ok1 == i = 0 \/ orderLess(d[i], heap[a])
           ok2 == i = Len(d) - 1 \/ orderLess(heap[a], d[i + 2])
       IN  IF ordered /\ (~ok1 \/ ~ok2)
           THEN /\ ret' = Ret("Update", "order", <<>>)
                /\ UNCHANGED heap
           ELSE /\ heap' = deepCopy(data[i + 1], a)
                /\ ret' = Ret("Update", "none", <<>>)
    /\ UNCHANGED <<data, version, ordered, persist, files, results, iter, h,
                   m, delayedWrite, bg, sd, swd, th, log, held, arg>>

\* Result.Delete(n) on table index i
CellDelete(i) ==
    /\ Lock
    /\ i < Len(data)
    /\ version < MaxVersion
    /\ data' = RemoveAt(data, i + 1)
    /\ heap' = IF data[i + 1] \in held THEN heap ELSE Release(heap, data[i + 1])
    /\ version' = version + 1
    /\ ret' = Ret("Delete", "none", <<>>)
    /\ UNCHANGED <<ordered, persist, files, results, iter, h,
                   m, delayedWrite, bg, sd, swd, th, log, held, arg>>

NextCells ==
    \/ \E v \in Records : CallerNew(v)
    \/ \E a \in Addrs, v \in Records : CallerSet(a, v)
    \/ \E a \in Addrs : CallerDrop(a)
    \/ \E a \in Addrs : CellInsert(a)
    \/ \E a \in Addrs, i \in 0 .. (MaxLen - 1) : CellGet(a, i)
    \/ \E i \in 0 .. (MaxLen - 1) : CellYield(i)
    \/ \E a \in Addrs, i \in 0 .. (MaxLen - 1) : CellUpdate(i, a)
    \/ \E i \in 0 .. (MaxLen - 1) : CellDelete(i)

SpecCells == InitThreads /\ [][NextCells]_vars

\* C21: changing the record the caller passed to Insert, or a record the caller
\* got from Get, Iter, First or All, changes no record of the table; the cells of
\* the table are pairwise distinct and the caller points to none of them.
C21_IndependentCopies ==
    /\ [](held \cap Range(data) = {})
    /\ [](Cardinality(Range(data)) = Len(data))
    /\ [][ret'.op = "CallerSet" /\ (\E a \in Addrs, v \in Records : CallerSet(a, v))
             => Deref(heap', data') = Deref(heap, data)]_vars

\* the caller has changed the record it passed to Insert, and the table still
\* holds the record as it was inserted
C21_Witness ==
    /\ ret.op = "CallerSet"
    /\ Len(data) = 2
    /\ held # {}
    /\ \A a \in held : heap[a] \notin Range(Deref(heap, data))

\* ---- functions studied alone -------------------------------------------------
\* no table is in use: the state of the variables of the table while a function
\* is applied to arg
NoTable ==
    /\ data = <<>>
    /\ version = 0
    /\ ordered = FALSE
    /\ persist = "nil"
    /\ files = [g \in GroupNames |-> NoFile]
    /\ results = [s \in Slots |-> NoResult]
    /\ iter = NoIter
    /\ ret = Ret("none", "none", <<>>)
    /\ m = "free"
    /\ delayedWrite = FALSE
    /\ h = NoHandler
    /\ bg = NoGoroutine
    /\ sd = NoCall
    /\ swd = NoCall
    /\ th = [t \in Threads |-> NoThread]
    /\ log = <<>>
    /\ NoCells

\* the function applied to arg leaves everything but ret alone
OnlyRet ==
    UNCHANGED <<data, version, ordered, persist, files, results, iter, h, writerVars>>

\* ---- the Monthly name provider -------------------------------------------------
\* a string is a sequence of characters
DigitChars == <<"0", "1", "2", "3", "4", "5", "6", "7", "8", "9">>

\* strconv.Itoa
RECURSIVE Itoa(_)
Itoa(n) ==
    IF n < 0 THEN <<"-">> \o Itoa(0 - n)
    ELSE IF n < 10 THEN <<DigitChars[n + 1]>>
    ELSE Itoa(n \div 10) \o <<DigitChars[(n % 10) + 1]>>

\* the dates of the records: d.Year() and d.Month()
Years == {99, 2024, 2025}
Dates == [year : Years, month : 1 .. 12]

\* the prefix Monthly is called with
Prefixes == {<<>>, <<"t", "e", "s", "t">>}

\* Monthly(prefix, dateFunc): the prefix the provider keeps
Monthly(prefix) == IF prefix # <<>> THEN prefix \o <<"_">> ELSE prefix

\* monthly.SameFile
monthlySameFile(d1, d2) == (d1.year = d2.year) /\ (d1.month = d2.month)

\* a ToFile that never pads the month
monthlyToFileUnpadded(prefix, d) == prefix \o Itoa(d.year) \o <<"_">> \o Itoa(d.month)

\* monthly.ToFile, with the prefix the provider keeps
monthlyToFile(prefix, d) ==
    IF d.month < 10
    THEN prefix \o Itoa(d.year) \o <<"_", "0">> \o Itoa(d.month)
    ELSE prefix \o Itoa(d.year) \o <<"_">> \o Itoa(d.month)

InitMonthly ==
    /\ NoTable
    /\ arg \in [prefix : Prefixes, a : Dates, b : Dates]

\* SameFile(a, b), ToFile(a) and ToFile(b) of the provider Monthly(prefix, ...)
MonthlyCall ==
    /\ ret.op = "none"
    /\ LET pre == Monthly(arg.prefix)
       IN  ret' = Ret("Monthly", "none",
                      [same |-> monthlySameFile(arg.a, arg.b),
                       fa |-> monthlyToFile(pre, arg.a),
                       fb |-> monthlyToFile(pre, arg.b)])
    /\ OnlyRet

SpecMonthly == InitMonthly /\ [][MonthlyCall]_vars

\* the number a sequence of digits stands for
RECURSIVE DigitsValue(_)
DigitsValue(str) ==
    IF str = <<>> THEN 0
    ELSE 10 * DigitsValue(SubSeq(str, 1, Len(str) - 1))
           + (CHOOSE k \in 0 .. 9 : DigitChars[k + 1] = str[Len(str)])

IsDigits(str) == \A i \in 1 .. Len(str) : \E k \in 1 .. 10 : DigitChars[k] = str[i]

\* the name is the prefix, "_" if there is a prefix, the year, "_" and two digits
\* that are the month
WellFormedName(prefix, d, name) ==
    LET pre == IF prefix = <<>> THEN <<>> ELSE prefix \o <<"_">>
        rest == SubSeq(name, Len(pre) + 1, Len(name))
        yy == SubSeq(rest, 1, Len(rest) - 3)
        mm == SubSeq(rest, Len(rest) - 1, Len(rest))
    IN  /\ Len(name) >= Len(pre) + 4
        /\ SubSeq(name, 1, Len(pre)) = pre
        /\ IsDigits(yy) /\ DigitsValue(yy) = d.year
        /\ rest[Len(rest) - 2] = "_"
        /\ IsDigits(mm) /\ DigitsValue(mm) = d.month

\* C22: for the Monthly provider, SameFile(a, b) holds exactly when a and b have
\* the same year and month, and then ToFile(a) = ToFile(b); the name is the
\* prefix, the year and the month written with two digits.
C22_MonthlyNames ==
    ret.op = "Monthly"
       => /\ ret.val.same <=> (arg.a.year = arg.b.year /\ arg.a.month = arg.b.month)
          /\ ret.val.same => ret.val.fa = ret.val.fb
          /\ WellFormedName(arg.prefix, arg.a, ret.val.fa)
          /\ WellFormedName(arg.prefix, arg.b, ret.val.fb)

\* two different dates of one month before October, with a prefix
C22_Witness ==
    /\ ret.op = "Monthly"
    /\ ret.val.same
    /\ arg.a.month = 3
    /\ arg.prefix # <<>>
    /\ ret.val.fa = <<"t", "e", "s", "t", "_", "2", "0", "2", "4", "_", "0", "3">>

\* ---- Table.SetPrimaryOrder -------------------------------------------------------
\* Table.SetPrimaryOrder(less): the relation is stored
SetPrimaryOrder ==
    /\ ordered' = TRUE
    /\ ret' = Ret("SetPrimaryOrder", "none", <<>>)
    /\ UNCHANGED <<data, version, persist, files, results, iter, h, writerVars>>

\* a table made without order and without back-end
InitPrimary ==
    /\ data = <<>>
    /\ version = 0
    /\ ordered = FALSE
    /\ persist = "nil"
    /\ files = [g \in GroupNames |-> NoFile]
    /\ results = [s \in Slots |-> NoResult]
    /\ iter = NoIter
    /\ ret = Ret("New", "none", <<>>)
    /\ NoWriter

NextPrimary ==
    \/ \E e \in Records, io \in IOFail : Insert(e, io)
    \/ \E accept \in Accepts, target \in Slots : Match(accept, target)
    \/ \E r \in Slots, n \in 0 .. MaxLen : Get(r, n)
    \/ SetPrimaryOrder

SpecPrimary == InitPrimary /\ [][NextPrimary]_vars

\* C23: SetPrimaryOrder(less) sorts the records of the table by less, keeps less
\* as the order relation for later inserts, and increments the version, so that a
\* Result taken before the call is stale.
C23_SetPrimaryOrderSorts ==
    [][SetPrimaryOrder
          => /\ Sorted(data')
             /\ SameBag(data', data)
             /\ ordered'
             /\ version' = version + 1
             /\ \A r \in Slots : results[r] # NoResult => results'[r].version # version']_vars

\* ---- the binary codec (package serialize): values ----------------------------------
\* A Go integer is kept as the bytes of its two's complement representation, low
\* byte first, as many as its type is wide; a 64-bit value does not fit a number
\* of the model.  b[1] is the low byte.
\*   [kind |-> "int8" .. "uint64", "int", "uint", b |-> bytes]
\*   [kind |-> "bool", v |-> BOOLEAN]
\*   [kind |-> "ptr", nil |-> BOOLEAN, elem |-> the value pointed to, or the zero
\*                                              value of its type when nil]
\*   [kind |-> "struct", fields |-> the settable fields in declaration order]
\*   [kind |-> "slice" or "array", elems |-> the elements, zero |-> the zero
\*                                              value of the element type]
\*   [kind |-> "iface", set |-> BOOLEAN, dyn |-> the value held]

\* typeCode
invalidCode == 0
boolCode == 1
int8Code == 2
int16Code == 3
int32Code == 4
int64Code == 5
uint8Code == 6
uint16Code == 7
uint32Code == 8
uint64Code == 9
structCode == 13
arrayCode == 14
interfaceCode == 16

\* bits.UintSize of the machines the codec runs on
UintSizes == {32, 64}

SignedKinds == {"int8", "int16", "int32", "int64"}
UnsignedKinds == {"uint8", "uint16", "uint32", "uint64"}
NativeKinds == {"int", "uint"}
IntKinds == SignedKinds \cup UnsignedKinds \cup NativeKinds

\* the number of bytes of an integer type on a machine with UintSize us
Width(kind, us) ==
    CASE kind \in {"int8", "uint8"} -> 1
      [] kind \in {"int16", "uint16"} -> 2
      [] kind \in {"int32", "uint32"} -> 4
      [] kind \in {"int64", "uint64"} -> 8
      [] kind \in NativeKinds -> us \div 8

\* the byte that fills the high end when the signed value b is widened
SignFill(b) == IF b[Len(b)] >= 128 THEN 255 ELSE 0

\* conversion of a signed, of an unsigned integer to n >= Len(b) bytes
SignExtend(b, n) == b \o [i \in 1 .. (n - Len(b)) |-> SignFill(b)]
ZeroExtend(b, n) == b \o [i \in 1 .. (n - Len(b)) |-> 0]

\* conversion to a type of n <= Len(b) bytes
Truncate(b, n) == SubSeq(b, 1, n)

\* the representation in w bytes of the number n, -2^31 < n < 2^31
IntBytes(n, w) ==
    [i \in 1 .. w |-> IF i <= 4 THEN (n \div (256 ^ (i - 1))) % 256
                      ELSE IF n < 0 THEN 255 ELSE 0]

IV(kind, b) == [kind |-> kind, b |-> b]
BoolV(v) == [kind |-> "bool", v |-> v]
PtrTo(v) == [kind |-> "ptr", nil |-> FALSE, elem |-> v]
NilPtr(zero) == [kind |-> "ptr", nil |-> TRUE, elem |-> zero]
StructV(fields) == [kind |-> "struct", fields |-> fields]
SliceV(elems, zero) == [kind |-> "slice", elems |-> elems, zero |-> zero]
ArrayV(elems, zero) == [kind |-> "array", elems |-> elems, zero |-> zero]

\* reflect.Value.Int() and int64(v.Uint()) of an integer value: an int64
ValueInt(v) == SignExtend(v.b, 8)
ValueUint(v) == ZeroExtend(v.b, 8)

\* ---- the binary codec: Write -----------------------------------------------------
\* v >> 8 on an int64
ShiftRight8(v) == Tail(v) \o <<SignFill(v)>>

\* the loop of writeIntBytes: byte(v & 0xff), then v = v >> 8, n times
RECURSIVE IntBytesLoop(_, _)
IntBytesLoop(v, n) ==
    IF n = 0 THEN <<>> ELSE <<v[1]>> \o IntBytesLoop(ShiftRight8(v), n - 1)

\* Serializer.writeIntBytes(w, code, v, n)
writeIntBytes(code, v, n) == <<code>> \o IntBytesLoop(v, n)

\* a writeInt32 that writes the high byte first
writeInt32BigEndian(i) == <<i[4], i[3], i[2], i[1]>>

\* Serializer.writeInt32(w, i), i a uint32
writeInt32(i) == <<i[1], i[2], i[3], i[4]>>

\* Serializer.writeBool
writeBool(v) == <<boolCode, IF v.v THEN 1 ELSE 0>>

\* Serializer.writeValue on a machine with UintSize us; writeStruct and writeArray
RECURSIVE writeValue(_, _)
writeValue(v, us) ==
    CASE v.kind = "bool" -> writeBool(v)
      [] v.kind = "int8" -> writeIntBytes(int8Code, ValueInt(v), 1)
      [] v.kind = "uint8" -> writeIntBytes(uint8Code, ValueUint(v), 1)
      [] v.kind = "int16" -> writeIntBytes(int16Code, ValueInt(v), 2)
      [] v.kind = "uint16" -> writeIntBytes(uint16Code, ValueUint(v), 2)
      [] v.kind = "int32" -> writeIntBytes(int32Code, ValueInt(v), 4)
      [] v.kind = "uint32" -> writeIntBytes(uint32Code, ValueUint(v), 4)
      [] v.kind = "int64" -> writeIntBytes(int64Code, ValueInt(v), 8)
      [] v.kind = "uint64" -> writeIntBytes(uint64Code, ValueUint(v), 8)
      [] v.kind = "int" -> IF us = 32
                           THEN writeIntBytes(int32Code, ValueInt(v), 4)
                           ELSE writeIntBytes(int64Code, ValueInt(v), 8)
      [] v.kind = "uint" -> IF us = 32
                            THEN writeIntBytes(uint32Code, ValueUint(v), 4)
                            ELSE writeIntBytes(uint64Code, ValueUint(v), 8)
      [] v.kind = "struct" ->
            LET RECURSIVE fieldsFrom(_)
                fieldsFrom(i) == IF i > Len(v.fields) THEN <<>>
                                 ELSE writeValue(v.fields[i], us) \o fieldsFrom(i + 1)
            IN  <<structCode>> \o fieldsFrom(1)
      [] v.kind = "ptr" -> IF v.nil THEN <<invalidCode>> ELSE writeValue(v.elem, us)
      [] v.kind \in {"slice", "array"} ->
            LET RECURSIVE elemsFrom(_)
                elemsFrom(i) == IF i > Len(v.elems) THEN <<>>
                                ELSE writeValue(v.elems[i], us) \o elemsFrom(i + 1)
            IN  <<arrayCode>> \o writeInt32(IntBytes(Len(v.elems), 4)) \o elemsFrom(1)

\* Serializer.Write(w, &v)
Write(v, us) == writeValue(PtrTo(v), us)

\* ---- the binary codec: Read ------------------------------------------------------
\* readInterface masks an int with 1 << 31 (lines 362-363), so the decoder is
\* built where an int has 64 bits: the targets' native integers are 8 bytes wide.
ReaderUintSize == 64

\* What a read function leaves behind: whether it panicked, the target as far as
\* it was set, and the input not yet consumed.
Ok(val, rest) == [panic |-> FALSE, val |-> val, rest |-> rest]
Panic(val, rest) == [panic |-> TRUE, val |-> val, rest |-> rest]

\* the zero value of the type of v, where the decoder runs
RECURSIVE Zero(_)
Zero(v) ==
    CASE v.kind \in IntKinds -> IV(v.kind, [i \in 1 .. Width(v.kind, ReaderUintSize) |-> 0])
      [] v.kind = "bool" -> BoolV(FALSE)
      [] v.kind = "ptr" -> NilPtr(Zero(v.elem))
      [] v.kind = "struct" -> StructV([i \in 1 .. Len(v.fields) |-> Zero(v.fields[i])])
      [] v.kind = "slice" -> SliceV(<<>>, v.zero)
      [] v.kind = "array" -> ArrayV([i \in 1 .. Len(v.elems) |-> v.zero], v.zero)
      [] v.kind = "iface" -> [kind |-> "iface", set |-> FALSE, dyn |-> BoolV(FALSE)]

\* the Serializer's registry: New().Register(int8(0)).Register(false)
typeList == <<IV("int8", <<0>>), BoolV(FALSE)>>

\* expect(r, code) returns: a byte is there and it is the code
expect(r, code) == Len(r) > 0 /\ r[1] = code

\* val << 8 on a uint64
ShiftLeft8(val) == <<0>> \o SubSeq(val, 1, 7)

\* the loop of readRawInt: val = val << 8; val |= buf[l-i-1], for i = 0 .. l-1
RECURSIVE RawIntLoop(_, _, _)
RawIntLoop(buf, i, val) ==
    IF i = Len(buf) THEN val
    ELSE RawIntLoop(buf, i + 1, [ShiftLeft8(val) EXCEPT ![1] = buf[Len(buf) - i]])

\* Serializer.readRawInt(r, l): a uint64, or a panic when fewer than l bytes are left
readRawInt(r, l) ==
    IF Len(r) < l THEN Panic(<<>>, <<>>)
    ELSE Ok(RawIntLoop(SubSeq(r, 1, l), 0, [i \in 1 .. 8 |-> 0]),
               SubSeq(r, l + 1, Len(r)))

\* getIntLen(code)
getIntLen(code) ==
    CASE code \in {int8Code, uint8Code} -> 1
      [] code \in {int16Code, uint16Code} -> 2
      [] code \in {int32Code, uint32Code} -> 4
      [] code \in {int64Code, uint64Code} -> 8
      [] OTHER -> 0

\* Serializer.readSizedInt(r, code)
readSizedInt(r, code) ==
    IF expect(r, code) THEN readRawInt(Tail(r), getIntLen(code)) ELSE Panic(<<>>, <<>>)

\* reflect.Value.SetInt(x) and SetUint(x), x of 64 bits: they panic on a value of
\* the other class and keep the low bytes that fit the type
CanSetInt(v) == v.kind \in SignedKinds \cup {"int"}
CanSetUint(v) == v.kind \in UnsignedKinds \cup {"uint"}
SetIntU(v, x) == IV(v.kind, Truncate(x, Len(v.b)))

\* Serializer.readInt(r, v)
readInt(r, v) ==
    IF Len(r) = 0 THEN Panic(v, r)
    ELSE IF r[1] \in {int32Code, int64Code}
         THEN LET raw == readRawInt(Tail(r), IF r[1] = int32Code THEN 4 ELSE 8)
              IN  IF raw.panic \/ ~CanSetInt(v) THEN Panic(v, raw.rest)
                  ELSE Ok(SetIntU(v, raw.val), raw.rest)
         ELSE Panic(v, Tail(r))

\* Serializer.readBool(r, v)
readBool(r, v) ==
    IF expect(r, boolCode) /\ Len(r) >= 2
    THEN Ok(BoolV(r[2] # 0), SubSeq(r, 3, Len(r)))
    ELSE Panic(v, <<>>)

\* Serializer.readInt32(r): the four bytes read, or a panic
readInt32(r) ==
    IF Len(r) < 4 THEN Panic(<<>>, <<>>)
    ELSE Ok(SubSeq(r, 1, 4), SubSeq(r, 5, Len(r)))

\* the largest number of the model
MaxInt31 == 2147483647

\* the low 31 bits of the four bytes, and whether bit 31 is set
Low31(b) == b[1] + 256 * b[2] + 65536 * b[3] + 16777216 * (b[4] % 128)
Bit31(b) == b[4] >= 128

\* the int the four bytes stand for; a length of 2^31 or more exceeds every input,
\* the largest number stands for it
IntOf(b) == IF Bit31(b) THEN MaxInt31 ELSE Low31(b)

RECURSIVE readValue(_, _)
RECURSIVE readElems(_, _, _, _)

\* the loops of readStruct, readSlice and readArray: readValue on the elements
\* i .. l of the sequence elems, in order; an index past the end panics
readElems(r, elems, i, l) ==
    IF i > l THEN Ok(elems, r)
    ELSE IF i > Len(elems) THEN Panic(elems, r)
    ELSE LET e == readValue(r, elems[i])
             set == [elems EXCEPT ![i] = e.val]
         IN  IF e.panic THEN Panic(set, e.rest)
             ELSE readElems(e.rest, set, i + 1, l)

\* reflect.MakeSlice(type, l, l) as far as the loop of readSlice gets to use it:
\* every element read takes a byte, so no more than Len(r) + 1 are reached
MakeSlice(zero, l, r) == [i \in 1 .. Min({l, Len(r) + 1}) |-> zero]

\* Serializer.readStruct(r, v)
readStruct(r, v) ==
    IF ~expect(r, structCode) THEN Panic(v, <<>>)
    ELSE LET f == readElems(Tail(r), v.fields, 1, Len(v.fields))
         IN  [f EXCEPT !.val = StructV(f.val)]

\* Serializer.readSlice(r, v)
readSlice(r, v) ==
    IF ~expect(r, arrayCode) THEN Panic(v, <<>>)
    ELSE LET l == readInt32(Tail(r))
         IN  IF l.panic THEN Panic(v, <<>>)
             ELSE LET e == readElems(l.rest, MakeSlice(v.zero, IntOf(l.val), l.rest),
                                     1, IntOf(l.val))
                  IN  IF e.panic THEN Panic(v, e.rest)
                      ELSE Ok(SliceV(e.val, v.zero), e.rest)

\* Serializer.readArray(r, v)
readArray(r, v) ==
    IF ~expect(r, arrayCode) THEN Panic(v, <<>>)
    ELSE LET l == readInt32(Tail(r))
         IN  IF l.panic THEN Panic(v, <<>>)
             ELSE LET e == readElems(l.rest, v.elems, 1, IntOf(l.val))
                  IN  [e EXCEPT !.val = ArrayV(e.val, v.zero)]

\* Serializer.readInterface(r, v)
readInterface(r, v) ==
    IF ~expect(r, interfaceCode) THEN Panic(v, <<>>)
    ELSE LET ic == readInt32(Tail(r))
         IN  IF ic.panic THEN Panic(v, <<>>)
             ELSE IF Low31(ic.val) + 1 > Len(typeList) THEN Panic(v, ic.rest)
             ELSE LET val == readValue(ic.rest, PtrTo(typeList[Low31(ic.val) + 1]))
                  IN  IF val.panic THEN Panic(v, val.rest)
                      ELSE Ok([kind |-> "iface", set |-> TRUE,
                                  dyn |-> IF Bit31(ic.val) THEN val.val ELSE val.val.elem],
                                 val.rest)

\* Serializer.readValue(r, v)
readValue(r, v) ==
    CASE v.kind = "struct" -> readStruct(r, v)
      [] v.kind = "bool" -> readBool(r, v)
      [] v.kind \in NativeKinds -> readInt(r, v)
      [] v.kind \in UnsignedKinds ->
            LET x == readSizedInt(r, CASE v.kind = "uint8" -> uint8Code
                                       [] v.kind = "uint16" -> uint16Code
                                       [] v.kind = "uint32" -> uint32Code
                                       [] v.kind = "uint64" -> uint64Code)
            IN  IF x.panic \/ ~CanSetUint(v) THEN Panic(v, <<>>)
                ELSE Ok(SetIntU(v, x.val), x.rest)
      [] v.kind \in SignedKinds ->
            LET x == readSizedInt(r, CASE v.kind = "int8" -> int8Code
                                       [] v.kind = "int16" -> int16Code
                                       [] v.kind = "int32" -> int32Code
                                       [] v.kind = "int64" -> int64Code)
            IN  IF x.panic \/ ~CanSetInt(v) THEN Panic(v, <<>>)
                ELSE Ok(SetIntU(v, x.val), x.rest)
      [] v.kind = "ptr" ->
            LET e == readValue(r, v.elem)
            IN  [e EXCEPT !.val = PtrTo(e.val)]
      [] v.kind = "slice" -> readSlice(r, v)
      [] v.kind = "array" -> readArray(r, v)
      [] v.kind = "iface" -> readInterface(r, v)

\* What Read is handed as its target: a pointer, nil or not, or a plain value.
\* Serializer.Read(r, target) without the deferred recover: a panic goes on to the
\* caller
ReadNoRecover(r, target) ==
    IF target.kind # "ptr" \/ target.nil
    THEN [err |-> "invalid target type", val |-> target, rest |-> r]
    ELSE LET e == readValue(r, target)
         IN  [err |-> IF e.panic THEN "panic" ELSE "none", val |-> e.val, rest |-> e.rest]

\* Serializer.Read(r, target)
Read(r, target) ==
    IF target.kind # "ptr" \/ target.nil
    THEN [err |-> "invalid target type", val |-> target, rest |-> r]
    ELSE LET e == readValue(r, target)
         IN  [err |-> IF e.panic THEN "error during decoding" ELSE "none",
              val |-> e.val, rest |-> e.rest]

\* ---- the binary codec: values written and read back --------------------------------
\* the bytes the integers under test are made of
ByteVals == {0, 1, 255}
Patterns == [1 .. 8 -> ByteVals]

\* the struct S of TestRWInt without its float fields, every field cut from the
\* 8 bytes p; the native fields are as wide as the encoder's machine
IsIntStruct(v) == v.kind = "struct" /\ Len(v.fields) = 10

IntStruct(p, us) ==
    StructV(<<IV("int", Truncate(p, us \div 8)), IV("int8", Truncate(p, 1)),
              IV("int16", Truncate(p, 2)), IV("int32", Truncate(p, 4)),
              IV("int64", p), IV("uint", Truncate(p, us \div 8)),
              IV("uint8", Truncate(p, 1)), IV("uint16", Truncate(p, 2)),
              IV("uint32", Truncate(p, 4)), IV("uint64", p)>>)

\* the values of TestStructWrite, TestStructNilWrite, TestSlice and TestArray
StructAB == StructV(<<IV("int32", IntBytes(1025, 4)), BoolV(TRUE)>>)
StructNil == StructV(<<IV("int32", IntBytes(1025, 4)), NilPtr(BoolV(FALSE))>>)
Int16s(ns) == [i \in 1 .. Len(ns) |-> IV("int16", IntBytes(ns[i], 2))]
Slice1234 == SliceV(Int16s(<<1, 2, 3, 4>>), IV("int16", <<0, 0>>))
Array1234 == ArrayV(Int16s(<<1, 2, 3, 4>>), IV("int16", <<0, 0>>))

\* further structs, slices and arrays
Composites ==
    {StructV(<<IV("int32", IntBytes(n, 4)), q>>) :
        n \in {1025, 0 - 4}, q \in {BoolV(FALSE), BoolV(TRUE), NilPtr(BoolV(FALSE)),
                                    PtrTo(BoolV(FALSE)), PtrTo(BoolV(TRUE))}}
    \cup {SliceV(Int16s(ns), IV("int16", <<0, 0>>)) :
        ns \in {<<>>, <<0 - 1>>, <<258, 0 - 2>>, <<1, 2, 3, 4>>}}
    \cup {ArrayV(Int16s(ns), IV("int16", <<0, 0>>)) :
        ns \in {<<>>, <<0 - 1>>, <<258, 0 - 2>>, <<1, 2, 3, 4>>}}
    \cup {StructV(<<SliceV(<<StructAB, StructNil>>, Zero(StructNil)), PtrTo(Slice1234)>>)}

\* the values handed to Write on a machine with UintSize us
CodecValues(us) ==
    {IntStruct(p, us) : p \in Patterns}
    \cup {IV(k, Truncate(p, Width(k, us))) : k \in IntKinds, p \in Patterns}
    \cup Composites

\* w := a value; ser.Write(&b, &w) on a machine with UintSize arg.us
InitCodec ==
    /\ NoTable
    /\ arg \in UNION {[v : CodecValues(us), us : {us}] : us \in UintSizes}

WriteCall ==
    /\ ret.op = "none"
    /\ ret' = Ret("Write", "none", Write(arg.v, arg.us))
    /\ OnlyRet

\* var r of the type of w; ser.Read(&b, &r); ret.val keeps the bytes and r
ReadCall ==
    /\ ret.op = "Write"
    /\ LET res == Read(ret.val, PtrTo(Zero(arg.v)))
       IN  ret' = Ret("Read", res.err, [bytes |-> ret.val, r |-> res.val.elem])
    /\ OnlyRet

NextCodec == WriteCall \/ ReadCall

SpecCodec == InitCodec /\ [][NextCodec]_vars

\* the encodings one after the other
RECURSIVE Concat(_)
Concat(ss) == IF ss = <<>> THEN <<>> ELSE Head(ss) \o Concat(Tail(ss))

\* the type code the wire format gives an integer type of fixed size
CodeOfKind(kind) ==
    CASE kind = "int8" -> 2 [] kind = "int16" -> 3 [] kind = "int32" -> 4
      [] kind = "int64" -> 5 [] kind = "uint8" -> 6 [] kind = "uint16" -> 7
      [] kind = "uint32" -> 8 [] kind = "uint64" -> 9

C24_IntegersRoundTrip ==
    (ret.op = "Read" /\ arg.us = ReaderUintSize /\ IsIntStruct(arg.v))
        => ret.err = "none" /\ ret.val.r = arg.v

\* a struct whose second field is a nil pointer
HasNilField(v) ==
    v.kind = "struct" /\ Len(v.fields) = 2 /\ v.fields[2].kind = "ptr" /\ v.fields[2].nil

\* C25: a struct with a nil pointer field is written with the single byte 0 for
\* that field, and reading the bytes back returns no error and leaves the field
\* of the target nil.
C25_NilPointerRoundTrip ==
    (ret.op = "Read" /\ HasNilField(arg.v))
        => /\ ret.val.bytes = <<13>> \o Write(arg.v.fields[1], arg.us) \o <<0>>
           /\ ret.err = "none"
           /\ ret.val.r.fields[2].nil

\* C27: a native int is written as a 32-bit or as a 64-bit integer, as the
\* encoder's machine has it, and reading either into a native int gives the number
\* that was written, negative ones included.
C27_NativeIntEitherWidth ==
    (ret.op = "Read" /\ arg.v.kind = "int")
        => /\ ret.val.bytes = <<IF arg.us = 32 THEN 4 ELSE 5>> \o arg.v.b
           /\ Len(arg.v.b) = arg.us \div 8
           /\ ret.err = "none"
           /\ ret.val.r = IV("int", SignExtend(arg.v.b, 8))

\* ---- the binary codec: Read on arbitrary input ------------------------------------
IfaceZero == [kind |-> "iface", set |-> FALSE, dyn |-> BoolV(FALSE)]

\* the targets handed to Read: pointers to zero values of the types under test, a
\* pointer to a struct that already holds values, a nil pointer and plain values
ReadTargets ==
    {PtrTo(Zero(IV(k, <<0>>))) : k \in IntKinds}
    \cup {PtrTo(Zero(v)) : v \in {BoolV(TRUE), StructAB, StructNil, Slice1234, Array1234,
                                  PtrTo(BoolV(TRUE)), IfaceZero,
                                  SliceV(<<>>, IfaceZero),
                                  StructV(<<Slice1234, IfaceZero>>)}}
    \cup {PtrTo(StructV(<<IV("int32", IntBytes(7, 4)), PtrTo(BoolV(TRUE))>>))}
    \cup {NilPtr(BoolV(FALSE)), NilPtr(StructAB), BoolV(FALSE), StructAB, Slice1234}

\* encodings of a value behind an interface: code 16, the tag in four bytes (index
\* into the registry, bit 31 for a pointer), then the value
IfaceEncodings ==
    {<<interfaceCode, i, 0, 0, hi>> \o w :
        i \in 0 .. 2, hi \in {0, 128}, w \in {<<int8Code, 7>>, <<boolCode, 1>>}}

\* well-formed inputs
Encodings ==
    {Write(v, us) : v \in Composites, us \in UintSizes}
    \cup {Write(IV(k, IntBytes(0 - 2, Width(k, us))), us) : k \in IntKinds, us \in UintSizes}
    \cup {Write(BoolV(TRUE), 64), Write(SliceV(<<>>, IfaceZero), 64)}
    \cup IfaceEncodings
    \cup {<<arrayCode, 2, 0, 0, 0>> \o w \o w : w \in IfaceEncodings}

\* the bytes a well-formed input is damaged with
DamageBytes == {invalidCode, boolCode, int32Code, int64Code, structCode, arrayCode,
                interfaceCode, 255}

\* the inputs of Read: the well-formed ones, each of them cut short, each of them
\* with one byte replaced, and every sequence of up to two bytes
ReadInputs ==
    UNION {{SubSeq(s, 1, n) : n \in 0 .. Len(s)}
           \cup {[s EXCEPT ![k] = b] : k \in 1 .. Len(s), b \in DamageBytes} :
           s \in Encodings}
    \cup UNION {[1 .. n -> DamageBytes] : n \in 0 .. 2}

InitRead ==
    /\ NoTable
    /\ arg \in [r : ReadInputs, t : ReadTargets]

\* err := ser.Read(bytes.NewReader(arg.r), arg.t)
ReadBytes ==
    /\ ret.op = "none"
    /\ LET res == Read(arg.r, arg.t)
       IN  ret' = Ret("Read", res.err, [t |-> res.val, rest |-> res.rest])
    /\ OnlyRet

NextRead == ReadBytes

SpecRead == InitRead /\ [][NextRead]_vars

\* the type codes a value of the type of v can start with, and the least number
\* of bytes it takes
RECURSIVE FirstCodes(_)
FirstCodes(v) ==
    CASE v.kind \in SignedKinds \cup UnsignedKinds -> {CodeOfKind(v.kind)}
      [] v.kind \in NativeKinds -> {4, 5, 8, 9}
      [] v.kind = "bool" -> {1}
      [] v.kind = "struct" -> {13}
      [] v.kind \in {"slice", "array"} -> {14}
      [] v.kind = "iface" -> {16}
      [] v.kind = "ptr" -> FirstCodes(v.elem) \cup {0}

RECURSIVE Sum(_)
Sum(ns) == IF ns = <<>> THEN 0 ELSE Head(ns) + Sum(Tail(ns))

RECURSIVE LeastLen(_)
LeastLen(v) ==
    CASE v.kind \in SignedKinds \cup UnsignedKinds -> 1 + Len(v.b)
      [] v.kind \in NativeKinds -> 5
      [] v.kind = "bool" -> 2
      [] v.kind = "struct" -> 1 + Sum([i \in 1 .. Len(v.fields) |-> LeastLen(v.fields[i])])
      [] v.kind \in {"slice", "array"} -> 5
      [] v.kind = "iface" -> 7
      [] v.kind = "ptr" -> 1

\* C26: Read returns; no panic reaches the caller.  A target that is nil or not a
\* pointer gets the invalid-target error and nothing is read.  Input that ends
\* before the value is complete, that starts with a type code the target's type
\* does not have, or that names an interface type outside the registry gets a
\* decoding error.
C26_ReadReturnsErrors ==
    ret.op = "Read" =>
        /\ ret.err \in {"none", "invalid target type", "error during decoding"}
        /\ (arg.t.kind # "ptr" \/ arg.t.nil) =>
              /\ ret.err = "invalid target type"
              /\ ret.val.rest = arg.r /\ ret.val.t = arg.t
        /\ (arg.t.kind = "ptr" /\ ~arg.t.nil) =>
              /\ ret.err \in {"none", "error during decoding"}
              /\ Len(arg.r) < LeastLen(arg.t.elem) => ret.err = "error during decoding"
              /\ (arg.r # <<>> /\ arg.r[1] \notin FirstCodes(arg.t.elem))
                    => ret.err = "error during decoding"
              /\ (/\ arg.t.elem.kind = "iface" /\ Len(arg.r) >= 5
                  /\ Low31(SubSeq(arg.r, 2, 5)) >= Len(typeList))
                    => ret.err = "error during decoding"

C26_Witness ==
    /\ ret.op = "Read" /\ ret.err = "error during decoding"
    /\ arg.t = PtrTo(IfaceZero) /\ arg.r = <<16, 2, 0, 0, 0, 2, 7>>

\* ---- the delayed writer and the table on disk --------------------------------------
\* C29: a mutation of a group that runs while the goroutine flushes the group is
\* not lost: when the goroutine has written the group and handled the result
\* (written), the file of the group holds the records of the group or the group
\* is still in the handler's map.
C29_FlushKeepsConcurrentMutation ==
    [][bg.pc = "written" /\ bg'.pc # "written"
          => \/ files'[Head(bg.names)] = GroupOf(data', Head(bg.names))
             \/ Head(bg.names) \in DOMAIN h'.nameMap]_vars

\* C30: in immediate mode on a disk whose calls do not fail the disk mirrors the
\* table after every Insert, Delete and Update: the file of every group holds
\* exactly the records of the group, and a group without records has no file.
C30_DiskMirrorsTable ==
    (persist = "reliable" /\ ~delayedWrite)
        => \A g \in GroupNames : files[g] = GroupOf(data, g)

\* ---- the Result and the table ---------------------------------------------------
\* C31: when a call of Result.Delete has taken a record out of the table, the
\* Result is valid afterwards, whatever the call returns: its version is the
\* table's, its index array is one shorter and holds positions of the table only.
C31_DeleteKeepsResultValid ==
    [][\A r \in Slots :
          (ret'.op = "Delete" /\ Len(data') < Len(data) /\ results[r] # NoResult)
              => /\ results'[r].version = version'
                 /\ Len(results'[r].tableIndex) = Len(results[r].tableIndex) - 1
                 /\ \A i \in 1 .. Len(results'[r].tableIndex) :
                       results'[r].tableIndex[i] < Len(data')]_vars

C33_FlushToleratesMissingFile ==
    [][/\ (/\ bg.pc = "write" /\ bg'.pc = "written"
           /\ GroupOf(data, Head(bg.names)) = <<>> /\ files[Head(bg.names)] = NoFile)
             => bg'.err = "none" /\ files'[Head(bg.names)] = NoFile
       /\ (/\ bg.pc = "written" /\ bg'.pc # "written"
           /\ GroupOf(data, Head(bg.names)) = <<>> /\ files[Head(bg.names)] = NoFile)
             => /\ Head(bg.names) \notin DOMAIN h'.nameMap
                /\ h'.lastError = "none"]_vars

\* the table after the first k calls of the log
After(k) == Replay(SubSeq(log, 1, k))

\* C34: when two goroutines call Delete on Results captured at the same version,
\* which is the table's version when the first of the two calls gets the lock,
\* that call succeeds and the other returns the staleness error; the two calls
\* together take exactly one record out of the table and advance the version by
\* exactly one.
C34_ConcurrentDeletes ==
    Quiet =>
        /\ data = After(Len(log)).data /\ version = After(Len(log)).version
        /\ \A j, k \in 1 .. Len(log) :
              (/\ j < k
               /\ log[j].op = "Delete" /\ log[k].op = "Delete"
               /\ log[j].by # log[k].by /\ log[j].ver = log[k].ver
               /\ After(j - 1).version = log[j].ver)
                  => /\ log[j].err = "none" /\ log[k].err = "changed"
                     /\ Len(After(j).data) = Len(After(j - 1).data) - 1
                     /\ After(j).version = After(j - 1).version + 1
                     /\ After(k).data = After(k - 1).data
                     /\ After(k).version = After(k - 1).version

\* after an Insert both goroutines have called Delete on Results of the version
\* the Insert left, one after the other; the record is gone, the version is 2
C34_Witness ==
    /\ Quiet /\ Len(log) = 3 /\ Len(data) = 0 /\ version = 2
    /\ log[1].op = "Insert" /\ log[2].ver = 1
    /\ log[2].op = "Delete" /\ log[3].op = "Delete"
    /\ log[2].by # log[3].by /\ log[2].ver = log[3].ver
    /\ log[2].err = "none" /\ log[3].err = "changed"

\* C35: in every state the version of a Result is at most the table's, and a
\* Result whose version is the table's holds positions of the table only
\* (0 <= index < size), each of them once.
C35_ValidResultWellFormed ==
    \A r \in Slots :
        results[r] # NoResult =>
            /\ results[r].version <= version
            /\ results[r].version = version =>
                  /\ \A i \in 1 .. Len(results[r].tableIndex) :
                        /\ results[r].tableIndex[i] >= 0
                        /\ results[r].tableIndex[i] < Len(data)
                  /\ Cardinality(Range(results[r].tableIndex)) = Len(results[r].tableIndex)

\* a Result that held both records is valid after its own Delete of the first
C35_Witness ==
    /\ ret.op = "Delete" /\ ret.err = "none"
    /\ results[1].version = version /\ version = 3
    /\ results[1].tableIndex = <<0>> /\ Len(data) = 1

\* C36: Match(accept) returns a Result whose index array holds exactly the
\* positions i with accept(data[i]), in ascending order, and whose version is
\* the table's version at that moment; the sequence and the version stay.
C36_MatchCollectsPositions ==
    [][ret'.op = "Match" =>
          /\ data' = data
          /\ version' = version
          /\ \A r \in Slots :
                results'[r] # results[r] \/ results'[r].version = version =>
                   LET ix == results'[r].tableIndex
                   IN  /\ results'[r].version = version
                       /\ \A k \in 1 .. (Len(ix) - 1) : ix[k] < ix[k + 1]
                       /\ \E accept \in Accepts :
                             Range(ix) = {i \in 0 .. (Len(data) - 1) : data[i + 1] \in accept}
          /\ \E r \in Slots : results'[r].version = version]_vars

\* a Match that took the second of two records only
C36_Witness ==
    /\ ret.op = "Match"
    /\ Len(data) = 2
    /\ data[1] # data[2]
    /\ results[1].tableIndex = <<1>>
    /\ results[1].version = version

\* ---- Result.Order with the caller keeping both Results --------------------------
\* o, err := r.Order(less): r stays in its slot, o and err are what the call
\* returned, and arg records the less that was passed
OrderKeep(r, rel) ==
    /\ Lock
    /\ results[r] # NoResult
    /\ \E t \in order(results[r].tableIndex, rel, results[r].version) :
          ret' = Ret("Order", t.err,
                     IF t.err = "none"
                     THEN <<[tableIndex |-> t.so, version |-> results[r].version]>>
                     ELSE <<>>)
    /\ arg' = <<rel>>
    /\ UNCHANGED <<data, version, ordered, persist, files, results, iter, h,
                   m, delayedWrite, bg, sd, swd, th, log, heap, held>>

NextOrder ==
    \/ \E e \in Records, io \in IOFail : Insert(e, io)
    \/ \E accept \in Accepts, target \in Slots : Match(accept, target)
    \/ \E r \in Slots, rel \in OrderRels : OrderKeep(r, rel)
    \/ \E r \in Slots, n \in 0 .. (MaxLen - 1), io \in IOFail : Delete(r, n, io)
    \/ \E i \in 0 .. (MaxLen - 1), io \in IOFail : OtherDelete(i, io)

SpecOrder == Init /\ [][NextOrder]_vars

\* the records a Result's index array refers to, in the array's order
Referenced(tableIndex) == [i \in 1 .. Len(tableIndex) |-> data[tableIndex[i] + 1]]

\* C37: Result.Order(less) on a valid Result returns a new Result with the same
\* captured version whose index array is a permutation of the original indices
\* sorted by less over the records they refer to; the original Result's index
\* array and the table are left unchanged.
C37_OrderReturnsSortedCopy ==
    [][\A r \in Slots :
          (ret'.op = "Order" /\ Valid(r)) =>
              /\ ret'.err = "none"
              /\ ret'.val[1].version = results[r].version
              /\ SameBag(ret'.val[1].tableIndex, results[r].tableIndex)
              /\ SortedBy(arg'[1], Referenced(ret'.val[1].tableIndex))
              /\ results' = results
              /\ data' = data
              /\ version' = version]_vars

\* two records in ascending order were put into descending order, and the
\* Result ordered still lists them as Match found them
C37_Witness ==
    /\ ret.op = "Order"
    /\ ret.err = "none"
    /\ arg = <<"desc">>
    /\ Len(data) = 2
    /\ data[1] < data[2]
    /\ results[1] = [tableIndex |-> <<0, 1>>, version |-> version]
    /\ ret.val[1] = [tableIndex |-> <<1, 0>>, version |-> version]

\* where the table position x stands in an index array
PlaceOf(tableIndex, x) == CHOOSE k \in 1 .. Len(tableIndex) : tableIndex[k] = x

\* neither record is less than the other
Equivalent(rel, e1, e2) == ~LessBy(rel, e1, e2) /\ ~LessBy(rel, e2, e1)

\* C38: the sort done by Result.Order is stable: two captured records that are
\* equivalent under less appear in the ordered Result in the same relative
\* order as in the original Result.
C38_OrderIsStable ==
    [][\A r \in Slots :
          (ret'.op = "Order" /\ ret'.err = "none" /\ Valid(r)) =>
              LET ix == results[r].tableIndex
                  so == ret'.val[1].tableIndex
              IN  \A i, j \in 1 .. Len(ix) :
                     (i < j /\ Equivalent(arg'[1], data[ix[i] + 1], data[ix[j] + 1]))
                         => PlaceOf(so, ix[i]) < PlaceOf(so, ix[j])]_vars

\* ---- Result.Iter with the calls of yield recorded ---------------------------------
\* what a yield does with the element it is handed: go on, end the loop, or
\* delete the element through the Result and go on
Dids == {"continue", "stop", "delete"}

\* entry of the range loop of Result.Iter, as IterStart; arg keeps what the
\* Result captured at that moment and log starts to record the calls of yield
IterEnter(r) ==
    /\ iter = NoIter
    /\ results[r] # NoResult
    /\ Len(results[r].tableIndex) > 0
    /\ iter' = [res |-> r, pos |-> 1, n |-> Len(results[r].tableIndex), tail |-> <<>>]
    /\ arg' = <<[indices |-> results[r].tableIndex,
                 captured |-> IF Valid(r) THEN Referenced(results[r].tableIndex) ELSE <<>>,
                 valid |-> Valid(r),
                 size |-> Len(data)]>>
    /\ log' = <<>>
    /\ ret' = Ret("IterStart", "none", <<>>)
    /\ UNCHANGED <<data, version, ordered, persist, files, results, h,
                   m, delayedWrite, bg, sd, swd, th, heap, held>>

\* one pass of the loop body: copy, then yield(&e, err).  A yield that deletes
\* calls r.Delete(n) for the entry n of the Result that refers to the record it
\* was handed, and answers true
IterYield(did) ==
    /\ Lock
    /\ iter # NoIter
    /\ LET r == iter.res
           R == results[r]
           idx == (R.tableIndex \o iter.tail)[iter.pos]
           c == copy(idx, R.version)
           ns == {n \in 0 .. (Len(R.tableIndex) - 1) : R.tableIndex[n + 1] = idx}
           deletes == did = "delete"
       IN  /\ deletes => (c.err = "none" /\ ns # {} /\ version < MaxVersion)
           /\ \E n \in (IF deletes THEN ns ELSE {0}) :
                 LET t == IF deletes
                          THEN delete(R.tableIndex[n + 1], R.version, FALSE)
                          ELSE [err |-> "kept", data |-> data, version |-> version,
                                files |-> files, h |-> h]
                     it == IF t.err = "none" THEN IterAfterDelete(r, R) ELSE iter
                 IN  /\ data' = t.data
                     /\ version' = t.version
                     /\ files' = t.files
                     /\ h' = t.h
                     /\ results' = IF t.err = "none"
                                   THEN [results EXCEPT ![r] = AfterDelete(R, n)]
                                   ELSE results
                     /\ iter' = IF did = "stop" \/ c.err # "none" \/ iter.pos = iter.n
                                THEN NoIter
                                ELSE [it EXCEPT !.pos = iter.pos + 1]
           /\ log' = Append(log, [n |-> idx, val |-> c.val, err |-> c.err, did |-> did])
           /\ ret' = Ret("Iter", c.err, c.val)
    /\ UNCHANGED <<ordered, persist, m, delayedWrite, bg, sd, swd, th, cellVars>>

NextIter ==
    \/ \E e \in Records, io \in IOFail : Insert(e, io)
    \/ \E accept \in Accepts, target \in Slots : Match(accept, target)
    \/ \E r \in Slots, rel \in OrderRels, target \in Slots : Order(r, rel, target)
    \/ \E i \in 0 .. (MaxLen - 1), io \in IOFail : OtherDelete(i, io)
    \/ \E r \in Slots : IterEnter(r)
    \/ \E did \in Dids : IterYield(did)

SpecIter == Init /\ [][NextIter]_vars

\* no yield of the iteration recorded in lg deleted through the Result
NoneDeleted(lg) == \A j \in 1 .. Len(lg) : lg[j].did # "delete"

\* C39: Result.Iter visits the captured indices in array order and yields a
\* copy of each record; it stops as soon as yield returns false; a pass that
\* finds the Result stale passes the error to yield once and the loop ends, so
\* that no call of yield follows one that was handed an error.
C39_IterProtocol ==
    [][(ret'.op = "Iter" /\ iter # NoIter) =>
          LET R == results[iter.res]
              k == Len(log')
              y == log'[k]
          IN  /\ k = Len(log) + 1
              /\ k = iter.pos
              /\ \A j \in 1 .. Len(log) : log[j].err = "none" /\ log[j].did # "stop"
              /\ NoneDeleted(log) => y.n = arg[1].indices[k]
              /\ k <= Len(R.tableIndex) => y.n = R.tableIndex[k]
              /\ y.err = "none" => y.val = <<data[y.n + 1]>>
              /\ R.version # version => y.err # "none"
              /\ (R.version = version /\ k <= Len(R.tableIndex)) => y.err = "none"
              /\ iter' = NoIter <=> (y.did = "stop" \/ y.err # "none" \/ k = Len(arg[1].indices))
              /\ iter' # NoIter => iter'.pos = k + 1]_vars

\* the second pass found that another caller had changed the table: yield was
\* handed the first record, then the error, and the loop ended
C39_Witness ==
    /\ ret.op = "Iter"
    /\ iter = NoIter
    /\ Len(arg[1].indices) = 2
    /\ Len(log) = 2
    /\ log[1].err = "none"
    /\ log[1].did = "continue"
    /\ log[1].val = <<arg[1].captured[1]>>
    /\ log[2].err # "none"
    /\ results[1].version < version

\* ---- a single caller that deletes while it iterates -----------------------------
\* for e, err := range r.Iter { ... r.Delete(n) ... }: every yield that is handed
\* a record deletes it through the Result, and nothing else touches the table
\* while the loop runs
IterDeleteYield ==
    \E did \in {"delete", "continue"} :
        /\ IterYield(did)
        /\ did = "delete" <=> ret'.err = "none"

NextIterDelete ==
    \/ iter = NoIter /\ \E e \in Records, io \in IOFail : Insert(e, io)
    \/ \E accept \in Accepts, target \in Slots : Match(accept, target)
    \/ \E r \in Slots, rel \in OrderRels, target \in Slots : Order(r, rel, target)
    \/ \E r \in Slots : IterEnter(r)
    \/ IterDeleteYield

SpecIterDelete == Init /\ [][NextIterDelete]_vars

\* the records handed to the calls of yield recorded in lg
Yielded(lg) == [j \in 1 .. Len(lg) |-> lg[j].val]

\* C40: when the yield of Result.Iter deletes the element just yielded from the
\* same Result, the iteration still yields every record the Result captured
\* exactly once, never yields an error, and ends with all captured records
\* removed from the table.
C40_IterateAndDelete ==
    (ret.op = "Iter" /\ iter = NoIter /\ arg[1].valid) =>
        /\ \A j \in 1 .. Len(log) : log[j].err = "none"
        /\ Yielded(log) = [j \in 1 .. Len(arg[1].captured) |-> <<arg[1].captured[j]>>]
        /\ Len(data) = arg[1].size - Len(arg[1].captured)

====
